---- MODULE Spec2Model ----
(***************************************************************************)
(* Model of the tween scheduling engine of src/game/tweening.py:           *)
(* _Tween (leaf), _Parallel, _Serial and Tweener.                          *)
(*                                                                         *)
(* Time is counted in integer ticks and attribute values in integer units  *)
(* of 1/Scale, where every duration divides Scale and begin/change are     *)
(* multiples of Scale.  On these inputs every floating point operation of  *)
(* ease_linear and of Tweener.update is exact, so the integer arithmetic   *)
(* below is the arithmetic of the code.                                    *)
(*                                                                         *)
(* A handler of the code is one action.  The handlers call each other      *)
(* recursively through the end callbacks; they are modelled as operators   *)
(* on a record s holding the whole program state, which the actions apply  *)
(* to the current state.  An exception raised by the code is s.err: once   *)
(* it is set every operator returns s unchanged (the exception unwinds).   *)
(***************************************************************************)
EXTENDS Integers, Sequences, FiniteSets, TLC

\* ---------------------------------------------------------------- bounds
MaxLeaves == 3
MaxDur == 2
MaxDelay == 1
MaxDt == 2
MaxClock == 4
MaxRepeat == 3
MaxExt == 3
MaxDepth == 12
MaxArgs == 2
NumTweeners == 2
NumOwners == 2

RECURSIVE Factorial(_)
Factorial(n) ==
  IF n <= 1 THEN 1 ELSE n * Factorial(n - 1)

\* one value unit is 1/Scale: c * t / d is an integer for every d in 1..MaxDur
Scale ==
  Factorial(MaxDur)

LeafIds == 1..MaxLeaves
\* the leaves, a group that is composed of them, and a second group for the
\* callers that compose again what they have composed before
GroupIds == {MaxLeaves + 1, MaxLeaves + 2}
NodeIds == 1..(MaxLeaves + 2)
Tweeners == 1..NumTweeners
Owners == 1..NumOwners
AttrNames == LeafIds

\* ------------------------------------------------------- sequence helpers
Range(seq) ==
  {seq[i] : i \in 1..Len(seq)}

InSeq(seq, x) ==
  \E i \in 1..Len(seq) : seq[i] = x

FirstIndex(seq, x) ==
  CHOOSE i \in 1..Len(seq) : seq[i] = x /\ \A j \in 1..(i - 1) : seq[j] # x

\* list.remove(x) guarded by "x in list": drops the first occurrence only
RemoveFirst(seq, x) ==
  IF InSeq(seq, x)
  THEN LET k == FirstIndex(seq, x)
       IN [i \in 1..(Len(seq) - 1) |-> IF i < k THEN seq[i] ELSE seq[i + 1]]
  ELSE seq

Count(seq, x) ==
  Cardinality({i \in 1..Len(seq) : seq[i] = x})

\* ------------------------------------------------------------- callbacks
\* the value of a cb field: None, a user function, or a bound method of a group
NoCb == [k |-> "none", id |-> 0]
UserCb(n) == [k |-> "user", id |-> n]
SerialCb(g) == [k |-> "serial", id |-> g]
ParallelCb(g) == [k |-> "parallel", id |-> g]
\* a key that is not in the _tween_callbacks dict
Absent == [k |-> "absent", id |-> 0]
\* a user function that, called with the tween that ended, calls stop(),
\* pause(), resume() or start() of the tween m, or clear(), pause_tweens() or
\* resume_tweens() of the tweener, or creates the tween m
ActKinds ==
  {"do_stop", "do_pause", "do_resume", "do_start", "do_clear",
   "do_pause_tweens", "do_resume_tweens", "do_create"}
ActCb(k, m) == [k |-> k, id |-> m]

\* ----------------------------------------------------------- TweenStates
created == "created"
active_ == "active"
paused_ == "paused"
ended == "ended"

\* ------------------------------------------------------------------ nodes
\* a slot that holds no object yet
NoNode ==
  [kind |-> "none", tweener |-> 0, state |-> created, cb |-> NoCb, t |-> 0,
   o |-> 0, a |-> 0, f |-> "linear", delay |-> 0, b |-> 0, c |-> 0, d |-> 0,
   delta_update |-> FALSE, v |-> 0,
   tweens |-> << >>, current_tween_index |-> -1, immediate |-> FALSE,
   current_tween_cb |-> NoCb, is_looping |-> FALSE,
   tween_callbacks |-> [m \in NodeIds |-> Absent]]

\* _Tween.__init__
Tween_init(T, o, a, b, c, d, delay, delta, cb) ==
  [NoNode EXCEPT !.kind = "tween", !.tweener = T, !.o = o, !.a = a, !.cb = cb,
                 !.state = created, !.delay = delay, !.t = -delay,
                 !.b = b, !.c = c, !.d = d, !.v = b, !.delta_update = delta]

VARIABLES nodes, active, paused, attr, calls, trace, err, lastOp, clock, hist

vars == <<nodes, active, paused, attr, calls, trace, err, lastOp, clock, hist>>

\* the program state as one value, at the start of a handler (fresh trace, no error)
St ==
  [nodes |-> nodes, active |-> active, paused |-> paused, attr |-> attr,
   calls |-> calls, trace |-> << >>, err |-> "none", depth |-> 0]

Ok(s) ==
  s.err = "none"

Raise(s, e) ==
  IF Ok(s) THEN [s EXCEPT !.err = e] ELSE s

\* ---------------------------------------------------------- ease functions
ease_linear(t, b, c, d) ==
  (c * t) \div d + b

\* The other curves of the catalog that are rational functions of t/d at
\* the instants 0, d/2 and d.  Values are integers in units of 1/EaseScale
\* with b and c multiples of EaseScale, so that every quotient below is exact:
\* the operators compute the real number that the expression of the code
\* denotes.
EaseScale == 4000

ease_in_quad(t, b, c, d) ==
  (c * t * t) \div (d * d) + b

ease_out_quad(t, b, c, d) ==
  (-c * t * (t - 2 * d)) \div (d * d) + b

\* "t /= d / 2.0; if t < 1: ...; t -= 1; ..."
ease_in_out_quad(t, b, c, d) ==
  IF 2 * t < d
  THEN (c * 4 * t * t) \div (2 * d * d) + b
  ELSE (-c * ((2 * t - d) * (2 * t - 3 * d) - d * d)) \div (2 * d * d) + b

ease_out_in_quad(t, b, c, d) ==
  IF 2 * t < d
  THEN ease_out_quad(t * 2, b, c \div 2, d)
  ELSE ease_in_quad(t * 2 - d, b + c \div 2, c \div 2, d)

ease_in_cubic(t, b, c, d) ==
  (c * t * t * t) \div (d * d * d) + b

ease_out_cubic(t, b, c, d) ==
  (c * ((t - d) * (t - d) * (t - d) + d * d * d)) \div (d * d * d) + b

RECURSIVE Pow2(_)
Pow2(k) ==
  IF k <= 0 THEN 1 ELSE 2 * Pow2(k - 1)

\* x * 2 ** (10 * (t / d - 1)), for an exponent that is a whole number <= 0
TimesPow2(x, t, d) ==
  x \div Pow2((10 * (d - t)) \div d)

\* "b if t == 0 else c * (2 ** (10 * (t / d - 1))) + b - c * 0.001"
ease_in_expo(t, b, c, d) ==
  IF t = 0 THEN b ELSE TimesPow2(c, t, d) + b - c \div 1000

\* "b + c if (t == d) else c * (-2 ** (-10 * t / d) + 1) + b"
ease_out_expo(t, b, c, d) ==
  IF t = d THEN b + c ELSE c - TimesPow2(c, d - t, d) + b

\* on the grid the branch "t < 1" of the code is taken by no instant but 0,
\* which returns before it; at d/2 the other branch gives c / 2 * 1.0005 + b
ease_in_out_expo(t, b, c, d) ==
  IF t = 0 THEN b
  ELSE IF t = d THEN b + c
  ELSE IF 2 * t < d
  THEN TimesPow2(c \div 2, 2 * t, d) + b - c \div 2000
  ELSE ((c \div 2) * 2001 * 2) \div 2000 - TimesPow2(((c \div 2) * 2001) \div 2000, 2 * d - 2 * t, d) + b

ease_out_in_expo(t, b, c, d) ==
  IF 2 * t < d
  THEN ease_out_expo(t * 2, b, c \div 2, d)
  ELSE ease_in_expo(t * 2 - d, b + c \div 2, c \div 2, d)

\* cos and sin of t / d * TWO_PI at the quarters of the period
Cos4(t, d) ==
  CASE ((4 * t) \div d) % 4 = 0 -> 1
    [] ((4 * t) \div d) % 4 = 2 -> -1
    [] OTHER -> 0

Sin4(t, d) ==
  CASE ((4 * t) \div d) % 4 = 1 -> 1
    [] ((4 * t) \div d) % 4 = 3 -> -1
    [] OTHER -> 0

\* "c * cos(t / d * TWO_PI) + b"
ease_in_sine2(t, b, c, d) ==
  c * Cos4(t, d) + b

\* "c * sin(t / d * TWO_PI) + b"
ease_in_sine3(t, b, c, d) ==
  c * Sin4(t, d) + b

\* ease_random_int_bounce with p = (low, high) and the number that
\* random.randint(low, high) returns
ease_random_int_bounce(t, b, c, d, randint) ==
  IF t < d
  THEN IF t = 0 THEN b ELSE b + randint * EaseScale
  ELSE b + c

\* the modelled curves of the list ease_functions, ease_random_int_bounce aside
Catalog ==
  {"linear", "in_quad", "out_quad", "in_out_quad", "out_in_quad", "in_cubic",
   "out_cubic", "in_expo", "out_expo", "in_out_expo", "out_in_expo",
   "in_sine2", "in_sine3"}

Ease(f, t, b, c, d) ==
  CASE f = "linear" -> ease_linear(t, b, c, d)
    [] f = "in_quad" -> ease_in_quad(t, b, c, d)
    [] f = "out_quad" -> ease_out_quad(t, b, c, d)
    [] f = "in_out_quad" -> ease_in_out_quad(t, b, c, d)
    [] f = "out_in_quad" -> ease_out_in_quad(t, b, c, d)
    [] f = "in_cubic" -> ease_in_cubic(t, b, c, d)
    [] f = "out_cubic" -> ease_out_cubic(t, b, c, d)
    [] f = "in_expo" -> ease_in_expo(t, b, c, d)
    [] f = "out_expo" -> ease_out_expo(t, b, c, d)
    [] f = "in_out_expo" -> ease_in_out_expo(t, b, c, d)
    [] f = "out_in_expo" -> ease_out_in_expo(t, b, c, d)
    [] f = "in_sine2" -> ease_in_sine2(t, b, c, d)
    [] f = "in_sine3" -> ease_in_sine3(t, b, c, d)

\* what one handler call did, in order: "write" (setattr by leaf n of val),
\* "start" (leaf n appended to the active list), "skip" (_Serial._start_tween
\* passes over child n) and "cb" (user callback n invoked with node arg, whose
\* state is st and whose attribute holds val at that moment)
Event(e, n, val, arg, st) ==
  [e |-> e, n |-> n, val |-> val, arg |-> arg, st |-> st]

\* setattr(tween.o, tween.a, value); the write is recorded in the trace
SetAttr(s, n, value) ==
  LET nd == s.nodes[n]
  IN [s EXCEPT !.attr[nd.o][nd.a] = value,
               !.trace = Append(@, Event("write", n, value, 0, ""))]

GetAttr(s, n) ==
  s.attr[s.nodes[n].o][s.nodes[n].a]

\* ------------------------------------------------------- Tweener (leaves)
\* a variant that leaves the paused list alone
remove_tween_active_only(s, T, tween) ==
  IF ~Ok(s) THEN s
  ELSE [s EXCEPT !.active[T] = RemoveFirst(@, tween),
                 !.nodes[tween].state = ended]

\* a variant without the "if tween in ..." guards of the two list.remove calls
remove_tween_unguarded(s, T, tween) ==
  IF ~Ok(s) THEN s
  ELSE IF ~InSeq(s.active[T], tween) \/ ~InSeq(s.paused[T], tween)
  THEN Raise(s, "ValueError")
  ELSE [s EXCEPT !.active[T] = RemoveFirst(@, tween),
                 !.paused[T] = RemoveFirst(@, tween),
                 !.nodes[tween].state = ended]

remove_tween(s, T, tween) ==
  IF ~Ok(s) THEN s
  ELSE [s EXCEPT !.active[T] = RemoveFirst(@, tween),
                 !.paused[T] = RemoveFirst(@, tween),
                 !.nodes[tween].state = ended]

Tween_stop(s, n) ==
  remove_tween(s, s.nodes[n].tweener, n)

\* a variant that leaves the leaf in the active list
pause_tween_kept_active(s, T, tween) ==
  IF ~Ok(s) THEN s
  ELSE IF InSeq(s.active[T], tween)
  THEN [s EXCEPT !.paused[T] = Append(@, tween),
                 !.nodes[tween].state = paused_]
  ELSE s

pause_tween(s, T, tween) ==
  IF ~Ok(s) THEN s
  ELSE IF InSeq(s.active[T], tween)
  THEN [s EXCEPT !.active[T] = RemoveFirst(@, tween),
                 !.paused[T] = Append(@, tween),
                 !.nodes[tween].state = paused_]
  ELSE s

Tween_pause(s, n) ==
  pause_tween(s, s.nodes[n].tweener, n)

resume_tween(s, T, tween) ==
  IF ~Ok(s) THEN s
  ELSE IF InSeq(s.paused[T], tween)
  THEN [s EXCEPT !.paused[T] = RemoveFirst(@, tween),
                 !.active[T] = Append(@, tween),
                 !.nodes[tween].state = active_]
  ELSE s

Tween_resume(s, n) ==
  resume_tween(s, s.nodes[n].tweener, n)

\* a variant without "tween.state = self.TweenStates.active"
start_tween_stopped_stale(s, T, tween, immediate) ==
  LET nd == s.nodes[tween]
  IN IF nd.tweener # T
     THEN Raise(s, "TweenBelongsToOtherTweenerException")
     ELSE IF immediate
     THEN SetAttr([s EXCEPT !.nodes[tween].t = -nd.delay,
                            !.nodes[tween].v = nd.b,
                            !.active[T] = Append(@, tween),
                            !.trace = Append(@, Event("start", tween, 0, 0, ""))],
                  tween, Ease(nd.f, 0, nd.b, nd.c, nd.d))
     ELSE [s EXCEPT !.nodes[tween].t = -nd.delay,
                    !.nodes[tween].v = nd.b,
                    !.active[T] = Append(@, tween),
                    !.trace = Append(@, Event("start", tween, 0, 0, ""))]

\* start_tween after its "tween.stop()"
start_tween_stopped(s, T, tween, immediate) ==
  LET nd == s.nodes[tween]
  IN IF nd.tweener # T
     THEN Raise(s, "TweenBelongsToOtherTweenerException")
     ELSE IF immediate
     THEN SetAttr([s EXCEPT !.nodes[tween].t = -nd.delay,
                            !.nodes[tween].v = nd.b,
                            !.active[T] = Append(@, tween),
                            !.nodes[tween].state = active_,
                            !.trace = Append(@, Event("start", tween, 0, 0, ""))],
                  tween, Ease(nd.f, 0, nd.b, nd.c, nd.d))
     ELSE [s EXCEPT !.nodes[tween].t = -nd.delay,
                    !.nodes[tween].v = nd.b,
                    !.active[T] = Append(@, tween),
                    !.nodes[tween].state = active_,
                    !.trace = Append(@, Event("start", tween, 0, 0, ""))]

\* a variant without the "tween.stop()"
start_tween_unstopped(s, T, tween, immediate) ==
  IF ~Ok(s) THEN s
  ELSE start_tween_stopped(s, T, tween, immediate)

start_tween(s, T, tween, immediate) ==
  IF ~Ok(s) THEN s
  ELSE start_tween_stopped(Tween_stop(s, tween), T, tween, immediate)

Tween_start(s, n, immediate) ==
  start_tween(s, s.nodes[n].tweener, n, immediate)

\* ------------------------------------------------- callbacks and composites
RECURSIVE Invoke(_, _, _)
RECURSIVE acting_callback(_, _, _)
RECURSIVE node_start(_, _, _)
RECURSIVE node_stop(_, _)
RECURSIVE node_pause(_, _)
RECURSIVE node_resume(_, _)
RECURSIVE D(_, _)
RECURSIVE SumD(_, _, _)
RECURSIVE MaxD(_, _, _)
RECURSIVE Serial_start_tween(_, _, _)
RECURSIVE Serial_skip_loop(_, _, _, _)
RECURSIVE Serial_skip_next(_, _, _)
RECURSIVE call_back_to_serial(_, _, _)
RECURSIVE call_back_to_parallel(_, _, _)
RECURSIVE Parallel_start_loop(_, _, _, _)
RECURSIVE Parallel_stop_loop(_, _, _)
RECURSIVE Serial_stop_loop(_, _, _)
RECURSIVE Parallel_pause_loop(_, _, _)
RECURSIVE Parallel_resume_loop(_, _, _)

\* a user end callback: it records that it ran and what it could observe
user_callback(s, id, arg) ==
  LET nd == s.nodes[arg]
      val == IF nd.kind = "tween" THEN s.attr[nd.o][nd.a] ELSE 0
  IN [s EXCEPT !.calls[id] = @ + 1,
               !.trace = Append(@, Event("cb", id, val, arg, nd.state))]

\* cb(*(list(cb_args) + [arg])): the call of a cb field's value
Invoke(s, cb, arg) ==
  IF ~Ok(s) THEN s
  ELSE IF s.depth >= MaxDepth THEN Raise(s, "RecursionError")
  ELSE LET s1 == [s EXCEPT !.depth = @ + 1]
           r == CASE cb.k = "user" -> user_callback(s1, cb.id, arg)
                  [] cb.k = "serial" -> call_back_to_serial(s1, cb.id, arg)
                  [] cb.k = "parallel" -> call_back_to_parallel(s1, cb.id, arg)
                  [] cb.k \in ActKinds -> acting_callback(s1, cb, arg)
       IN [r EXCEPT !.depth = s.depth]

\* the d property: _Tween.d, _Parallel.d (longest child), _Serial.d (sum)
SumD(s, seq, i) ==
  IF i > Len(seq) THEN 0 ELSE D(s, seq[i]) + SumD(s, seq, i + 1)

Max2(x, y) ==
  IF x >= y THEN x ELSE y

MaxD(s, seq, i) ==
  IF i > Len(seq) THEN 0
  ELSE IF i = Len(seq) THEN D(s, seq[i])
  ELSE Max2(D(s, seq[i]), MaxD(s, seq, i + 1))

D(s, n) ==
  LET nd == s.nodes[n]
  IN CASE nd.kind = "tween" -> nd.d
       [] nd.kind = "parallel" -> MaxD(s, nd.tweens, 1)
       [] nd.kind = "serial" -> SumD(s, nd.tweens, 1)

\* seq[i] for a Python index i (negative counts from the end); 0 if IndexError
PyIndex(seq, i) ==
  IF i >= 0 /\ i < Len(seq) THEN seq[i + 1]
  ELSE IF i < 0 /\ -i <= Len(seq) THEN seq[Len(seq) + i + 1]
  ELSE 0

\* ---------------------------------------------------------------- _Parallel
\* "self.state = ..." as the last statement of a method that may have raised
SetState(s, g, st) ==
  IF Ok(s) THEN [s EXCEPT !.nodes[g].state = st] ELSE s

\* "if x.cb: x.cb(*(list(x.cb_args) + [x]))"
InvokeCb(s, n) ==
  IF Ok(s) /\ s.nodes[n].cb # NoCb THEN Invoke(s, s.nodes[n].cb, n) ELSE s

\* "self._tween_callbacks[_t] = _t.cb; _t.cb = self.call_back_to_parallel"
Parallel_take_cb(s, g, ch) ==
  IF ~Ok(s) THEN s
  ELSE [s EXCEPT !.nodes[g].tween_callbacks[ch] = s.nodes[ch].cb,
                 !.nodes[ch].cb = ParallelCb(g)]

Parallel_start_loop(s, g, immediate, i) ==
  IF ~Ok(s) \/ i > Len(s.nodes[g].tweens) THEN s
  ELSE Parallel_start_loop(
         Parallel_take_cb(node_start(s, s.nodes[g].tweens[i], immediate),
                          g, s.nodes[g].tweens[i]),
         g, immediate, i + 1)

Parallel_start(s, g, immediate) ==
  SetState(Parallel_start_loop(
             [s EXCEPT !.nodes[g].t = 0,
                       !.nodes[g].tween_callbacks = [m \in NodeIds |-> Absent]],
             g, immediate, 1),
           g, active_)

\* "if _t in self._tween_callbacks: _t.cb = self._tween_callbacks[_t]"
Parallel_restore_cb(s, g, ch) ==
  IF ~Ok(s) \/ s.nodes[g].tween_callbacks[ch] = Absent THEN s
  ELSE [s EXCEPT !.nodes[ch].cb = s.nodes[g].tween_callbacks[ch]]

Parallel_stop_loop(s, g, i) ==
  IF ~Ok(s) \/ i > Len(s.nodes[g].tweens) THEN s
  ELSE Parallel_stop_loop(
         Parallel_restore_cb(node_stop(s, s.nodes[g].tweens[i]),
                             g, s.nodes[g].tweens[i]),
         g, i + 1)

\* "self._tween_callbacks.clear()" at the end of stop
Parallel_clear_callbacks(s, g) ==
  IF Ok(s) THEN [s EXCEPT !.nodes[g].tween_callbacks = [m \in NodeIds |-> Absent]]
  ELSE s

Parallel_stop(s, g) ==
  Parallel_clear_callbacks(
    Parallel_stop_loop([s EXCEPT !.nodes[g].state = ended], g, 1), g)

Parallel_pause_loop(s, g, i) ==
  IF ~Ok(s) \/ i > Len(s.nodes[g].tweens) THEN s
  ELSE Parallel_pause_loop(node_pause(s, s.nodes[g].tweens[i]), g, i + 1)

Parallel_pause(s, g) ==
  Parallel_pause_loop([s EXCEPT !.nodes[g].state = paused_], g, 1)

Parallel_resume_loop(s, g, i) ==
  IF ~Ok(s) \/ i > Len(s.nodes[g].tweens) THEN s
  ELSE Parallel_resume_loop(node_resume(s, s.nodes[g].tweens[i]), g, i + 1)

Parallel_resume(s, g) ==
  Parallel_resume_loop([s EXCEPT !.nodes[g].state = active_], g, 1)

\* a variant that does not look at the dict
tween_callbacks_empty_unchecked(s, g) ==
  TRUE

\* "len(self._tween_callbacks) == 0"
tween_callbacks_empty(s, g) ==
  \A m \in NodeIds : s.nodes[g].tween_callbacks[m] = Absent

\* "self._tween_callbacks.pop(ended_tween, None)": the value it returns
Parallel_popped(s, g, ended_tween) ==
  IF s.nodes[g].tween_callbacks[ended_tween] = Absent THEN NoCb
  ELSE s.nodes[g].tween_callbacks[ended_tween]

\* "if self.cb and len(self._tween_callbacks) == 0: self.cb(...)"
Parallel_own_callback(s, g) ==
  IF Ok(s) /\ s.nodes[g].cb # NoCb /\ tween_callbacks_empty(s, g)
  THEN Invoke(s, s.nodes[g].cb, g)
  ELSE s

call_back_to_parallel(s, g, ended_tween) ==
  IF ~Ok(s) THEN s
  ELSE Parallel_own_callback(
         InvokeCb([s EXCEPT !.nodes[g].t = s.nodes[ended_tween].t,
                            !.nodes[g].tween_callbacks[ended_tween] = Absent,
                            !.nodes[ended_tween].cb = Parallel_popped(s, g, ended_tween)],
                  ended_tween),
         g)

\* ------------------------------------------------------------------ _Serial
\* a variant that reports the end of the list one child early
get_next_tween_early(s, g) ==
  LET next_tween_idx == s.nodes[g].current_tween_index + 1
  IN IF next_tween_idx >= Len(s.nodes[g].tweens) - 1 THEN 0
     ELSE s.nodes[g].tweens[next_tween_idx + 1]

\* _Serial._get_next_tween; 0 stands for None
get_next_tween(s, g) ==
  LET next_tween_idx == s.nodes[g].current_tween_index + 1
  IN IF next_tween_idx >= Len(s.nodes[g].tweens) THEN 0
     ELSE s.nodes[g].tweens[next_tween_idx + 1]

call_own_callback(s, g) ==
  InvokeCb(s, g)

\* a variant with a strict comparison
is_passed_over_lt(d, over_time) ==
  d < over_time

\* the loop condition "_tween.d <= over_time"
is_passed_over(d, over_time) ==
  d <= over_time

\* a variant that drops the overtime
add_over_time_lost(t, over_time) ==
  t

\* "_tween.t += over_time"
add_over_time(t, over_time) ==
  t + over_time

\* "setattr(_tween.o, _tween.a, _tween.f(_tween.d, ...))" in the loop; a group
\* has no attribute o
Serial_skip_write(s, tw) ==
  LET nd == s.nodes[tw]
  IN IF ~Ok(s) THEN s
     ELSE IF nd.kind = "tween"
     THEN SetAttr(s, tw, Ease(nd.f, nd.d, nd.b, nd.c, nd.d))
     ELSE Raise(s, "AttributeError")

\* "_tween = self._get_next_tween()" in the loop and what follows it
Serial_skip_next(s, g, over_time) ==
  IF ~Ok(s) THEN s
  ELSE IF get_next_tween(s, g) = 0 THEN call_own_callback(s, g)
  ELSE Serial_skip_loop([s EXCEPT !.nodes[g].current_tween_index = @ + 1],
                        g, get_next_tween(s, g), over_time)

Serial_add_over_time(s, tw, over_time) ==
  IF Ok(s) THEN [s EXCEPT !.nodes[tw].t = add_over_time(@, over_time)] ELSE s

\* the statements after the loop: _tween becomes the live child
Serial_start_live(s, g, tw, over_time) ==
  Serial_add_over_time(
    node_start([s EXCEPT !.nodes[g].current_tween_cb = s.nodes[tw].cb,
                         !.nodes[tw].cb = SerialCb(g)],
               tw, s.nodes[g].immediate),
    tw, over_time)

\* the while loop of _Serial._start_tween, entered with _tween = tw, and the
\* statements after it
Serial_skip_loop(s, g, tw, over_time) ==
  IF ~Ok(s) THEN s
  ELSE IF is_passed_over(D(s, tw), over_time)
  THEN Serial_skip_next(
         Serial_skip_write(
           InvokeCb([s EXCEPT !.trace = Append(@, Event("skip", tw, 0, 0, ""))], tw),
           tw),
         g, over_time)
  ELSE Serial_start_live(s, g, tw, over_time)

\* _Serial._start_tween
Serial_start_tween(s, g, over_time) ==
  IF ~Ok(s) THEN s
  ELSE IF get_next_tween(s, g) # 0
  THEN Serial_skip_loop([s EXCEPT !.nodes[g].current_tween_index = @ + 1],
                        g, get_next_tween(s, g), over_time)
  ELSE call_own_callback(
         IF s.nodes[g].is_looping
         THEN Serial_start_tween([s EXCEPT !.nodes[g].current_tween_index = -1],
                                 g, over_time)
         ELSE s,
         g)

\* a variant that starts the next child before it calls back the ended one
RECURSIVE call_back_to_serial_late(_, _, _)
call_back_to_serial_late(s, g, ended_tween) ==
  IF ~Ok(s) THEN s
  ELSE InvokeCb(
         Serial_start_tween(
           [s EXCEPT !.nodes[g].t = @ + s.nodes[ended_tween].t,
                     !.nodes[ended_tween].cb = s.nodes[g].current_tween_cb],
           g, s.nodes[ended_tween].t - D(s, ended_tween)),
         ended_tween)

call_back_to_serial(s, g, ended_tween) ==
  IF ~Ok(s) THEN s
  ELSE Serial_start_tween(
         InvokeCb([s EXCEPT !.nodes[g].t = @ + s.nodes[ended_tween].t,
                            !.nodes[ended_tween].cb = s.nodes[g].current_tween_cb],
                  ended_tween),
         g, s.nodes[ended_tween].t - D(s, ended_tween))

Serial_stop_loop(s, g, i) ==
  IF ~Ok(s) \/ i > Len(s.nodes[g].tweens) THEN s
  ELSE Serial_stop_loop(node_stop(s, s.nodes[g].tweens[i]), g, i + 1)

\* the statements of stop after its loop
Serial_stop_restore(s, g) ==
  LET nd == s.nodes[g]
      cur == PyIndex(nd.tweens, nd.current_tween_index)
  IN IF ~Ok(s) THEN s
     ELSE IF nd.state = active_
     THEN IF cur = 0 THEN Raise(s, "IndexError")
          ELSE [s EXCEPT !.nodes[cur].cb = nd.current_tween_cb,
                         !.nodes[g].state = ended]
     ELSE [s EXCEPT !.nodes[g].state = ended]

Serial_stop(s, g) ==
  Serial_stop_restore(Serial_stop_loop(s, g, 1), g)

\* "self._current_tween_index = -1; self.immediate = immediate; self.t = 0"
Serial_reset(s, g, immediate) ==
  IF Ok(s)
  THEN [s EXCEPT !.nodes[g].current_tween_index = -1,
                 !.nodes[g].immediate = immediate,
                 !.nodes[g].t = 0]
  ELSE s

Serial_start(s, g, immediate) ==
  SetState(Serial_start_tween(Serial_reset(Serial_stop(s, g), g, immediate), g, 0),
           g, active_)

Serial_pause(s, g) ==
  LET nd == s.nodes[g]
      cur == PyIndex(nd.tweens, nd.current_tween_index)
  IN IF cur = 0 THEN Raise([s EXCEPT !.nodes[g].state = paused_], "IndexError")
     ELSE node_pause([s EXCEPT !.nodes[g].state = paused_], cur)

Serial_resume(s, g) ==
  LET nd == s.nodes[g]
      cur == PyIndex(nd.tweens, nd.current_tween_index)
  IN IF cur = 0 THEN Raise([s EXCEPT !.nodes[g].state = active_], "IndexError")
     ELSE node_resume([s EXCEPT !.nodes[g].state = active_], cur)

\* --------------------------------------- method dispatch on the node's class
node_start(s, n, immediate) ==
  IF ~Ok(s) THEN s
  ELSE CASE s.nodes[n].kind = "tween" -> Tween_start(s, n, immediate)
         [] s.nodes[n].kind = "parallel" -> Parallel_start(s, n, immediate)
         [] s.nodes[n].kind = "serial" -> Serial_start(s, n, immediate)

node_stop(s, n) ==
  IF ~Ok(s) THEN s
  ELSE CASE s.nodes[n].kind = "tween" -> Tween_stop(s, n)
         [] s.nodes[n].kind = "parallel" -> Parallel_stop(s, n)
         [] s.nodes[n].kind = "serial" -> Serial_stop(s, n)

node_pause(s, n) ==
  IF ~Ok(s) THEN s
  ELSE CASE s.nodes[n].kind = "tween" -> Tween_pause(s, n)
         [] s.nodes[n].kind = "parallel" -> Parallel_pause(s, n)
         [] s.nodes[n].kind = "serial" -> Serial_pause(s, n)

node_resume(s, n) ==
  IF ~Ok(s) THEN s
  ELSE CASE s.nodes[n].kind = "tween" -> Tween_resume(s, n)
         [] s.nodes[n].kind = "parallel" -> Parallel_resume(s, n)
         [] s.nodes[n].kind = "serial" -> Serial_resume(s, n)

\* ------------------------------------------------------------ Tweener.update
RECURSIVE update_advance(_, _, _, _, _)
RECURSIVE update_ended(_, _, _, _)

\* a variant without the clamp
cur_time_unclamped(t, d) ==
  t

\* "_cur_time = tween.t; if tween.t >= tween.d: ... _cur_time = tween.d"
cur_time(t, d) ==
  IF t >= d THEN d ELSE t

\* the body of "if tween.t >= 0.0" after the clamp: the value and its write
update_write(s, tween, value) ==
  IF s.nodes[tween].delta_update
  THEN SetAttr([s EXCEPT !.nodes[tween].v = value], tween,
               GetAttr(s, tween) + (value - s.nodes[tween].v))
  ELSE SetAttr(s, tween, value)

\* a variant without the test "if tween.t >= 0.0"
update_tween_undelayed(s, tween) ==
  LET nd == s.nodes[tween]
  IN update_write(s, tween, Ease(nd.f, cur_time(nd.t, nd.d), nd.b, nd.c, nd.d))

\* "tween.t += delta_time" and the rest of the first loop's body
update_tween(s, tween) ==
  LET nd == s.nodes[tween]
  IN IF nd.t >= 0
     THEN update_write(s, tween, Ease(nd.f, cur_time(nd.t, nd.d), nd.b, nd.c, nd.d))
     ELSE s

\* "if tween.t >= 0.0: ... if tween.t >= tween.d: ended_tweens.append(tween)",
\* for the t before "tween.t += delta_time"
update_is_end(nd, delta_time) ==
  nd.t + delta_time >= 0 /\ nd.t + delta_time >= nd.d

\* the first loop, "for tween in self._active_tweens", from position i on
update_advance(s, T, delta_time, i, ended_tweens) ==
  IF i > Len(s.active[T]) THEN [s |-> s, ended_tweens |-> ended_tweens]
  ELSE update_advance(
         update_tween([s EXCEPT !.nodes[s.active[T][i]].t = @ + delta_time],
                      s.active[T][i]),
         T, delta_time, i + 1,
         IF update_is_end(s.nodes[s.active[T][i]], delta_time)
         THEN Append(ended_tweens, s.active[T][i])
         ELSE ended_tweens)

\* the second loop, "for ended in ended_tweens", from position j on
update_ended(s, T, ended_tweens, j) ==
  IF ~Ok(s) \/ j > Len(ended_tweens) THEN s
  ELSE IF ~InSeq(s.active[T], ended_tweens[j]) THEN Raise(s, "ValueError")
  ELSE update_ended(
         InvokeCb([s EXCEPT !.active[T] = RemoveFirst(@, ended_tweens[j]),
                            !.nodes[ended_tweens[j]].state = ended],
                  ended_tweens[j]),
         T, ended_tweens, j + 1)

update_loops(r, T) ==
  update_ended(r.s, T, r.ended_tweens, 1)

\* a variant that advances the list once more after the callbacks
update_readvanced(s, T, delta_time) ==
  update_advance(update_loops(update_advance(s, T, delta_time, 1, << >>), T),
                 T, delta_time, 1, << >>).s

update(s, T, delta_time) ==
  update_loops(update_advance(s, T, delta_time, 1, << >>), T)

\* a variant that forgets the paused list
clear_active_only(s, T) ==
  [s EXCEPT !.active[T] = << >>]

\* Tweener.clear
clear(s, T) ==
  [s EXCEPT !.active[T] = << >>, !.paused[T] = << >>]

\* Tweener.pause_tweens: the lists change, the state fields do not
pause_tweens(s, T) ==
  [s EXCEPT !.paused[T] = @ \o s.active[T], !.active[T] = << >>]

\* a variant without "self._paused_tweens[:] = []"
resume_tweens_kept_paused(s, T) ==
  [s EXCEPT !.active[T] = @ \o s.paused[T]]

\* Tweener.resume_tweens
resume_tweens(s, T) ==
  [s EXCEPT !.active[T] = @ \o s.paused[T], !.paused[T] = << >>]

\* ------------------------------------------------------------------ queries
\* the argument None
None == "None"

\* the string that TweenStateNames gives for a state value
StateName(st) ==
  CASE st = "error" -> "'error'"
    [] st = created -> "'created'"
    [] st = active_ -> "'active'"
    [] st = paused_ -> "'paused'"
    [] st = ended -> "'ended'"

\* the values of the class TweenStates
StateValues == {"error", created, active_, paused_, ended}

\* the keys of the dict TweenStateNames: the state values and their names
TweenStateNames ==
  StateValues \cup {StateName(st) : st \in StateValues}

\* "for tween in list: if tween.o == obj: result.append(tween)"
TweensOf(s, list, obj) ==
  SelectSeq(list, LAMBDA tween : s.nodes[tween].o = obj)

\* Tweener.get_all_tweens_for: the exception it raises and the list it returns
get_all_tweens_for(s, T, obj, state) ==
  IF state # None /\ state \notin TweenStateNames
  THEN [err |-> "UnknownTweenStateException", result |-> << >>]
  ELSE [err |-> "none",
        result |-> (IF state = None \/ state = active_
                    THEN TweensOf(s, s.active[T], obj) ELSE << >>)
                   \o (IF state = None \/ state = paused_
                       THEN TweensOf(s, s.paused[T], obj) ELSE << >>)]

\* Tweener.get_all_tweens
get_all_tweens(s, T, state) ==
  IF state # None /\ state \notin TweenStateNames
  THEN [err |-> "UnknownTweenStateException", result |-> << >>]
  ELSE [err |-> "none",
        result |-> (IF state = None \/ state = active_ THEN s.active[T] ELSE << >>)
                   \o (IF state = None \/ state = paused_ THEN s.paused[T] ELSE << >>)]

\* ------------------------------------------------------------- constructors
\* a variant that registers the leaf before it looks at the duration
create_tween_registered_first(s, T, n, o, a, b, c, d, delay, delta, cb, immediate, do_start) ==
  LET s1 == [s EXCEPT !.nodes[n] = Tween_init(T, o, a, b, c, d, delay, delta, cb)]
  IN IF d <= 0
     THEN Raise(IF do_start THEN [s1 EXCEPT !.active[T] = Append(@, n)] ELSE s1,
                "AssertionError")
     ELSE IF do_start THEN start_tween(s1, T, n, immediate) ELSE s1

\* Tweener.create_tween into the free slot n; cb is the cb_end argument
create_tween(s, T, n, o, a, b, c, d, delay, delta, cb, immediate, do_start) ==
  IF d <= 0 THEN Raise(s, "AssertionError")
  ELSE LET s1 == [s EXCEPT !.nodes[n] = Tween_init(T, o, a, b, c, d, delay, delta, cb)]
       IN IF do_start THEN start_tween(s1, T, n, immediate) ELSE s1

\* the body of an acting user callback after it has recorded its call: the
\* created tween is like the tween that ended, on the attribute m
callback_act(s, cb, arg) ==
  LET T == s.nodes[arg].tweener
      nd == s.nodes[arg]
  IN CASE cb.k = "do_stop" -> node_stop(s, cb.id)
       [] cb.k = "do_pause" -> node_pause(s, cb.id)
       [] cb.k = "do_resume" -> node_resume(s, cb.id)
       [] cb.k = "do_start" -> node_start(s, cb.id, TRUE)
       [] cb.k = "do_clear" -> clear(s, T)
       [] cb.k = "do_pause_tweens" -> pause_tweens(s, T)
       [] cb.k = "do_resume_tweens" -> resume_tweens(s, T)
       [] cb.k = "do_create" ->
            IF s.nodes[cb.id].kind = "none"
            THEN create_tween(s, T, cb.id, nd.o, cb.id, nd.b, nd.c, nd.d, nd.delay,
                              FALSE, NoCb, TRUE, TRUE)
            ELSE s

acting_callback(s, cb, arg) ==
  callback_act(user_callback(s, arg, arg), cb, arg)

\* a variant that only refuses children that are running
RECURSIVE validate_not_running_only(_, _, _, _)
validate_not_running_only(s, T, tweens, i) ==
  IF i > Len(tweens) THEN "none"
  ELSE IF s.nodes[tweens[i]].tweener # T THEN "TweenBelongsToOtherTweenerException"
  ELSE IF s.nodes[tweens[i]].state \in {active_, paused_}
  THEN "TweenNotInAppropriateStateException"
  ELSE validate_not_running_only(s, T, tweens, i + 1)

\* a variant that does not look at the children's state
RECURSIVE validate_same_tweener_only(_, _, _, _)
validate_same_tweener_only(s, T, tweens, i) ==
  IF i > Len(tweens) THEN "none"
  ELSE IF s.nodes[tweens[i]].tweener # T THEN "TweenBelongsToOtherTweenerException"
  ELSE validate_same_tweener_only(s, T, tweens, i + 1)

\* Tweener.create_tween_by_end
create_tween_by_end(s, T, n, o, a, b, end, d, delay, delta, cb, immediate, do_start) ==
  create_tween(s, T, n, o, a, b, end - b, d, delay, delta, cb, immediate, do_start)

\* _validate_tweens_state_and_same_tweener: the exception it raises, or "none"
RECURSIVE validate_tweens_state_and_same_tweener(_, _, _, _)
validate_tweens_state_and_same_tweener(s, T, tweens, i) ==
  IF i > Len(tweens) THEN "none"
  ELSE IF s.nodes[tweens[i]].tweener # T THEN "TweenBelongsToOtherTweenerException"
  ELSE IF s.nodes[tweens[i]].state # created THEN "TweenNotInAppropriateStateException"
  ELSE validate_tweens_state_and_same_tweener(s, T, tweens, i + 1)

\* _Serial.__init__ into the free slot g
Serial_init(s, g, T, tweens) ==
  LET e == validate_tweens_state_and_same_tweener(s, T, tweens, 1)
  IN IF e # "none" THEN Raise(s, e)
     ELSE [s EXCEPT !.nodes[g] = [NoNode EXCEPT !.kind = "serial", !.tweener = T,
                                                !.tweens = tweens]]

\* _Parallel.__init__ into the free slot g
Parallel_init(s, g, T, tweens) ==
  LET e == validate_tweens_state_and_same_tweener(s, T, tweens, 1)
  IN IF e # "none" THEN Raise(s, e)
     ELSE [s EXCEPT !.nodes[g] = [NoNode EXCEPT !.kind = "parallel", !.tweener = T,
                                                !.tweens = tweens]]

\* a variant with one reference too many
repeated_one_more(n, count) ==
  [i \in 1..(count + 1) |-> n]

\* "[self] * count"
repeated(n, count) ==
  [i \in 1..count |-> n]

\* _Tween.repeat / _Serial.repeat / _Parallel.repeat of node n into the free slot g
repeat(s, g, n, count) ==
  LET T == s.nodes[n].tweener
      s1 == Serial_init(s, g, T, << n >>)
  IN IF count < 1
     THEN IF Ok(s1) THEN [s1 EXCEPT !.nodes[g].is_looping = TRUE] ELSE s1
     ELSE Serial_init(s, g, T, repeated(n, count))

\* ------------------------------------------------------------------- actions
Op(name, n, x) ==
  [op |-> name, n |-> n, x |-> x]

\* what the caller did so far (not program state): v0[n] is the value the
\* attribute of leaf n had when n was created, ext[n] the sum of the external
\* increments to it since then, nExt the number of external writes, dtAll the
\* delta_time of the update calls if they all passed the same one (-1 before
\* the first call, -2 if they differ), rep[g] the count that repeat was
\* called with to make g, call the tweener and the children that the last
\* group constructor was called with, got the arguments and the outcome of the
\* last get_all_tweens_for / get_all_tweens call (obj 0: get_all_tweens),
\* ease the arguments of a direct call of an ease function and, once it has
\* been made (done), the value r it returned
NoHist ==
  [v0 |-> [n \in LeafIds |-> 0], ext |-> [n \in LeafIds |-> 0], nExt |-> 0,
   dtAll |-> -1, rep |-> [g \in GroupIds |-> -1],
   call |-> [T |-> 0, tweens |-> << >>],
   got |-> [obj |-> 0, state |-> "None", err |-> "none", result |-> << >>],
   ease |-> [f |-> "none", t |-> 0, b |-> 0, c |-> 0, d |-> 1, p |-> <<0, 1>>,
             r |-> 0, done |-> FALSE]]

Init ==
  /\ nodes = [n \in NodeIds |-> NoNode]
  /\ active = [T \in Tweeners |-> << >>]
  /\ paused = [T \in Tweeners |-> << >>]
  /\ attr = [o \in Owners |-> [a \in AttrNames |-> 0]]
  /\ calls = [n \in NodeIds |-> 0]
  /\ trace = << >>
  /\ err = "none"
  /\ lastOp = Op("init", 0, 0)
  /\ clock = 0
  /\ hist = NoHist

\* the handler ran from the current state and left the program in state s
Commit(s, op) ==
  /\ nodes' = s.nodes
  /\ active' = s.active
  /\ paused' = s.paused
  /\ attr' = s.attr
  /\ calls' = s.calls
  /\ trace' = s.trace
  /\ err' = s.err
  /\ lastOp' = op

\* objects are allocated in slot order
FreeSlot(n, ids) ==
  /\ nodes[n].kind = "none"
  /\ \A m \in ids : m < n => nodes[m].kind # "none"

Exists(n) ==
  nodes[n].kind # "none"

\* tweener.create_tween(owner o, attribute a, ..., cb_end = a user callback or None)
CreateTween(n, T, o, a, b, c, d, delay, delta, hasCb, immediate, do_start) ==
  /\ FreeSlot(n, LeafIds)
  /\ Commit(create_tween(St, T, n, o, a, b, c, d, delay, delta,
                         IF hasCb THEN UserCb(n) ELSE NoCb, immediate, do_start),
            Op("create_tween", n, d))
  /\ hist' = [hist EXCEPT !.v0[n] = attr[o][a], !.ext[n] = 0]
  /\ UNCHANGED clock

\* tweener.create_tween(..., cb_end = cb) in absolute mode
CreateTweenCb(n, T, o, a, b, c, d, delay, cb, immediate, do_start) ==
  /\ FreeSlot(n, LeafIds)
  /\ Commit(create_tween(St, T, n, o, a, b, c, d, delay, FALSE, cb, immediate, do_start),
            Op("create_tween", n, d))
  /\ hist' = [hist EXCEPT !.v0[n] = attr[o][a], !.ext[n] = 0]
  /\ UNCHANGED clock

\* tweener.create_tween_by_end(owner o, attribute a, begin b, end, ...)
CreateTweenByEnd(n, T, o, a, b, end, d, delay, delta, hasCb, immediate, do_start) ==
  /\ FreeSlot(n, LeafIds)
  /\ Commit(create_tween_by_end(St, T, n, o, a, b, end, d, delay, delta,
                                IF hasCb THEN UserCb(n) ELSE NoCb, immediate, do_start),
            Op("create_tween_by_end", n, d))
  /\ hist' = [hist EXCEPT !.v0[n] = attr[o][a], !.ext[n] = 0]
  /\ UNCHANGED clock

\* tweener.next(*tweens), followed by the caller's "group.cb = callback"
NewSerial(g, tweens, withCb) ==
  /\ FreeSlot(g, GroupIds)
  /\ LET s == Serial_init(St, g, 1, tweens)
     IN Commit(IF Ok(s) /\ withCb THEN [s EXCEPT !.nodes[g].cb = UserCb(g)] ELSE s,
               Op("next", g, Len(tweens)))
  /\ UNCHANGED <<clock, hist>>

\* tweener.parallel(*tweens), followed by the caller's "group.cb = callback"
NewParallel(g, tweens, withCb) ==
  /\ FreeSlot(g, GroupIds)
  /\ tweens # << >>
  /\ LET s == Parallel_init(St, g, 1, tweens)
     IN Commit(IF Ok(s) /\ withCb THEN [s EXCEPT !.nodes[g].cb = UserCb(g)] ELSE s,
               Op("parallel", g, Len(tweens)))
  /\ UNCHANGED <<clock, hist>>

\* n.repeat(count), followed by the caller's "group.cb = callback"
Repeat(g, n, count, withCb) ==
  /\ FreeSlot(g, GroupIds)
  /\ Exists(n)
  /\ LET s == repeat(St, g, n, count)
     IN Commit(IF Ok(s) /\ withCb THEN [s EXCEPT !.nodes[g].cb = UserCb(g)] ELSE s,
               Op("repeat", g, count))
  /\ hist' = [hist EXCEPT !.rep[g] = count]
  /\ UNCHANGED clock

Start(n, immediate) ==
  /\ Exists(n)
  /\ Commit(node_start(St, n, immediate), Op("start", n, IF immediate THEN 1 ELSE 0))
  /\ UNCHANGED <<clock, hist>>

Stop(n) ==
  /\ Exists(n)
  /\ Commit(node_stop(St, n), Op("stop", n, 0))
  /\ UNCHANGED <<clock, hist>>

Pause(n) ==
  /\ Exists(n)
  /\ Commit(node_pause(St, n), Op("pause", n, 0))
  /\ UNCHANGED <<clock, hist>>

Resume(n) ==
  /\ Exists(n)
  /\ Commit(node_resume(St, n), Op("resume", n, 0))
  /\ UNCHANGED <<clock, hist>>

\* tweener.update(delta_time); the model stops when the delta_times add up
\* to MaxClock
Update(T, delta_time) ==
  /\ clock + delta_time <= MaxClock
  /\ Commit(update(St, T, delta_time), Op("update", T, 0))
  /\ clock' = clock + delta_time

\* tweener.clear()
Clear(T) ==
  /\ Commit(clear(St, T), Op("clear", T, 0))
  /\ UNCHANGED <<clock, hist>>

\* tweener.pause_tweens()
PauseTweens(T) ==
  /\ Commit(pause_tweens(St, T), Op("pause_tweens", T, 0))
  /\ UNCHANGED <<clock, hist>>

\* tweener.resume_tweens()
ResumeTweens(T) ==
  /\ Commit(resume_tweens(St, T), Op("resume_tweens", T, 0))
  /\ UNCHANGED <<clock, hist>>

\* tweener.get_all_tweens_for(obj, state): the program state stays as it is,
\* the caller has the result
GetAllTweensFor(T, obj, state) ==
  /\ Commit([St EXCEPT !.err = get_all_tweens_for(St, T, obj, state).err],
            Op("get_all_tweens_for", T, obj))
  /\ hist' = [hist EXCEPT !.got = [obj |-> obj, state |-> state,
                                   err |-> get_all_tweens_for(St, T, obj, state).err,
                                   result |-> get_all_tweens_for(St, T, obj, state).result]]
  /\ UNCHANGED clock

\* tweener.get_all_tweens(state)
GetAllTweens(T, state) ==
  /\ Commit([St EXCEPT !.err = get_all_tweens(St, T, state).err],
            Op("get_all_tweens", T, 0))
  /\ hist' = [hist EXCEPT !.got = [obj |-> 0, state |-> state,
                                   err |-> get_all_tweens(St, T, state).err,
                                   result |-> get_all_tweens(St, T, state).result]]
  /\ UNCHANGED clock

\* the caller's record of the delta_time of its update calls
SameDeltaTime(delta_time) ==
  hist' = [hist EXCEPT !.dtAll = IF @ = -1 \/ @ = delta_time THEN delta_time ELSE -2]

\* code outside the engine adds E to an attribute of an owner
ExternalWrite(o, a, E) ==
  /\ hist.nExt < MaxExt
  /\ Commit([St EXCEPT !.attr[o][a] = @ + E], Op("external", a, E))
  /\ hist' = [hist EXCEPT !.nExt = @ + 1,
                          !.ext = [n \in LeafIds |->
                                     IF nodes[n].kind = "tween" /\ nodes[n].o = o
                                        /\ nodes[n].a = a
                                     THEN @[n] + E ELSE @[n]]]
  /\ UNCHANGED clock

\* ------------------------------------------------------------ specifications
Begins == {0, Scale}
Change == 2 * Scale
Prefix(k) == [i \in 1..k |-> i]

\* SpecGroup: the caller creates leaves with do_start=False (all of them with
\* an end callback, or none of them; at most one of them with a start delay),
\* composes all of them into one group, starts the group and then drives the
\* engine with update(dt).
IsChild(n) ==
  \E g \in GroupIds : InSeq(nodes[g].tweens, n)

NumLeaves ==
  Cardinality({n \in LeafIds : Exists(n)})

NoGroupYet ==
  \A g \in GroupIds : ~Exists(g)

GroupCreate ==
  \E n \in LeafIds, d \in 1..MaxDur, delay \in 0..MaxDelay, hasCb \in BOOLEAN :
    /\ NoGroupYet
    /\ FreeSlot(n, LeafIds)
    /\ n > 1 => hasCb = (nodes[1].cb # NoCb)
    /\ delay > 0 => \A m \in LeafIds : nodes[m].delay = 0
    /\ CreateTween(n, 1, 1, n, Scale, Change, d, delay, FALSE, hasCb, TRUE, FALSE)

GroupSerial ==
  \E g \in GroupIds, withCb \in BOOLEAN :
    NoGroupYet /\ NumLeaves > 0 /\ NewSerial(g, Prefix(NumLeaves), withCb)

GroupParallel ==
  \E g \in GroupIds, withCb \in BOOLEAN :
    NoGroupYet /\ NumLeaves > 0 /\ NewParallel(g, Prefix(NumLeaves), withCb)

GroupRepeat ==
  \E g \in GroupIds, count \in 0..MaxRepeat, withCb \in BOOLEAN :
    NoGroupYet /\ NumLeaves = 1 /\ Repeat(g, 1, count, withCb)

GroupStart ==
  \E g \in GroupIds, immediate \in BOOLEAN :
    nodes[g].state = created /\ Start(g, immediate)

GroupUpdate ==
  \E delta_time \in 0..MaxDt :
    /\ \E g \in GroupIds : Exists(g) /\ nodes[g].state # created
    /\ Update(1, delta_time)
    /\ SameDeltaTime(delta_time)

NextGroup ==
  GroupCreate \/ GroupSerial \/ GroupParallel \/ GroupRepeat \/ GroupStart \/ GroupUpdate

SpecGroup ==
  Init /\ [][NextGroup]_vars

\* SpecLeaf: the caller creates two standalone leaves (absolute mode), starts,
\* stops, pauses and resumes the first one and drives the engine with
\* update(dt).  The first leaf takes every combination of arguments; the
\* second is created delay-free with begin 0, a callback and do_start, and
\* runs to its end beside the first.
SoloIds == {1, 2}

LeafCreate ==
  \E n \in SoloIds :
    /\ FreeSlot(n, LeafIds)
    /\ \E b \in Begins, d \in 0..MaxDur, delay \in 0..MaxDelay,
          hasCb \in BOOLEAN, immediate \in BOOLEAN, do_start \in BOOLEAN :
         /\ do_start \/ immediate
         /\ n > 1 => (b = 0 /\ delay = 0 /\ hasCb /\ do_start /\ immediate)
         /\ CreateTween(n, 1, 1, n, b, Change, d, delay, FALSE, hasCb, immediate, do_start)

LeafStart ==
  \E immediate \in BOOLEAN : Start(1, immediate)

LeafStop ==
  Stop(1)

LeafPause ==
  Pause(1)

LeafResume ==
  Resume(1)

LeafUpdate ==
  \E delta_time \in 0..MaxDt : Update(1, delta_time) /\ UNCHANGED hist

NextLeaf ==
  LeafCreate \/ LeafStart \/ LeafStop \/ LeafPause \/ LeafResume \/ LeafUpdate

SpecLeaf ==
  Init /\ [][NextLeaf]_vars

\* One delta-mode leaf on an attribute that code outside the engine increments
\* before every update (and possibly before the leaf is created).
DeltaCreate ==
  \E b \in Begins, d \in 1..MaxDur, delay \in 0..MaxDelay,
     hasCb \in BOOLEAN, immediate \in BOOLEAN :
    CreateTween(1, 1, 1, 1, b, Change, d, delay, TRUE, hasCb, immediate, TRUE)

DeltaExternal ==
  /\ lastOp.op \in {"init", "create_tween", "update"}
  /\ ExternalWrite(1, 1, Scale)

DeltaUpdate ==
  /\ Exists(1)
  /\ lastOp.op = "external"
  /\ \E delta_time \in 0..MaxDt : Update(1, delta_time)
  /\ UNCHANGED hist

NextDelta ==
  DeltaCreate \/ DeltaExternal \/ DeltaUpdate

SpecDelta ==
  Init /\ [][NextDelta]_vars

\* SpecCreate: the caller creates two leaves through create_tween and
\* create_tween_by_end, passing zero and negative durations as well, pauses
\* the first leaf, clears the tweener and drives the engine with update(dt).  The first leaf takes
\* every combination of arguments; the second is created with begin 0, a
\* callback, do_start and immediate.
MakeCreate ==
  \E n \in SoloIds :
    /\ FreeSlot(n, LeafIds)
    /\ \E b \in Begins, d \in -1..MaxDur, delay \in 0..MaxDelay,
          hasCb \in BOOLEAN, immediate \in BOOLEAN, do_start \in BOOLEAN :
         /\ do_start \/ immediate
         /\ n > 1 => (b = 0 /\ delay = 0 /\ hasCb /\ do_start /\ immediate)
         /\ CreateTween(n, 1, 1, n, b, Change, d, delay, FALSE, hasCb, immediate, do_start)

MakeCreateByEnd ==
  \E n \in SoloIds :
    /\ FreeSlot(n, LeafIds)
    /\ \E b \in Begins, d \in -1..MaxDur, delay \in 0..MaxDelay,
          hasCb \in BOOLEAN, immediate \in BOOLEAN, do_start \in BOOLEAN :
         /\ do_start \/ immediate
         /\ n > 1 => (b = 0 /\ delay = 0 /\ hasCb /\ do_start /\ immediate)
         /\ CreateTweenByEnd(n, 1, 1, n, b, b + Change, d, delay, FALSE, hasCb,
                             immediate, do_start)

MakePause ==
  nodes[1].state = active_ /\ Pause(1)

MakeUpdate ==
  \E delta_time \in 0..MaxDt : Exists(1) /\ Update(1, delta_time) /\ UNCHANGED hist

MakeClear ==
  Exists(1) /\ lastOp.op # "clear" /\ Clear(1)

NextCreate ==
  MakeCreate \/ MakeCreateByEnd \/ MakePause \/ MakeUpdate \/ MakeClear

SpecCreate ==
  Init /\ [][NextCreate]_vars

\* SpecBuild: the caller creates two leaves, the first under any tweener and
\* the second under tweener 1, started or not, pauses and stops them, and then
\* composes groups of up to MaxArgs of the objects it has, in any order and
\* with repetitions: first one group, which it may stop, then a second one
\* that may contain the first.  It makes no further call after a constructor
\* has raised.
BuildIds == {1, 2}

\* the argument lists of a constructor call: the objects that exist
Args ==
  UNION {[1..k -> {n \in NodeIds : Exists(n)}] : k \in 0..MaxArgs}

BuildCreate ==
  \E n \in BuildIds, T \in Tweeners, do_start \in BOOLEAN :
    /\ NoGroupYet
    /\ n > 1 => T = 1
    /\ CreateTween(n, T, 1, n, 0, Change, 1, 0, FALSE, FALSE, FALSE, do_start)

BuildPause ==
  \E n \in BuildIds : NoGroupYet /\ nodes[n].state = active_ /\ Pause(n)

BuildStop ==
  \E n \in BuildIds \cup GroupIds :
    /\ n \in BuildIds => NoGroupYet
    /\ n \in GroupIds => \E h \in GroupIds : ~Exists(h)
    /\ Exists(n)
    /\ nodes[n].state # ended
    /\ Stop(n)

\* tweener.next(*tweens) of tweener 1
BuildSerial ==
  \E g \in GroupIds, tweens \in Args :
    /\ err = "none"
    /\ FreeSlot(g, GroupIds)
    /\ Commit(Serial_init(St, g, 1, tweens), Op("next", g, Len(tweens)))
    /\ hist' = [hist EXCEPT !.call = [T |-> 1, tweens |-> tweens]]
    /\ UNCHANGED clock

\* tweener.parallel(*tweens) of tweener 1
BuildParallel ==
  \E g \in GroupIds, tweens \in Args :
    /\ err = "none"
    /\ FreeSlot(g, GroupIds)
    /\ Commit(Parallel_init(St, g, 1, tweens), Op("parallel", g, Len(tweens)))
    /\ hist' = [hist EXCEPT !.call = [T |-> 1, tweens |-> tweens]]
    /\ UNCHANGED clock

\* n.repeat(count)
BuildRepeat ==
  \E g \in GroupIds, n \in NodeIds, count \in 0..MaxArgs :
    /\ err = "none"
    /\ FreeSlot(g, GroupIds)
    /\ Exists(n)
    /\ Commit(repeat(St, g, n, count), Op("repeat", g, count))
    /\ hist' = [hist EXCEPT !.call = [T |-> nodes[n].tweener,
                            tweens |-> IF count < 1 THEN << n >>
                                       ELSE repeated(n, count)]]
    /\ UNCHANGED clock

NextBuild ==
  BuildCreate \/ BuildPause \/ BuildStop \/ BuildSerial \/ BuildParallel \/ BuildRepeat

SpecBuild ==
  Init /\ [][NextBuild]_vars

\* SpecQuery: the caller creates three leaves for two owners (the first and
\* the third for owner 1, the second for owner 2), pauses and resumes them one
\* by one and all at once, lets them run to their end, and asks the tweener
\* for its tweens with every filter value.
QueryIds == {1, 2, 3}

\* the state arguments of a query: None, the keys of TweenStateNames, and a
\* value that is not a key of it
Filters ==
  {None, "unknown"} \cup TweenStateNames

QueryCreate ==
  \E n \in QueryIds, do_start \in BOOLEAN :
    /\ lastOp.op \notin {"get_all_tweens_for", "get_all_tweens"}
    /\ CreateTween(n, 1, 2 - (n % 2), n, 0, Change, 1, 0, FALSE, FALSE, TRUE, do_start)

QueryPause ==
  \E n \in QueryIds :
    /\ lastOp.op \notin {"get_all_tweens_for", "get_all_tweens"}
    /\ Exists(n) /\ InSeq(active[1], n) /\ Pause(n)

QueryResume ==
  \E n \in QueryIds :
    /\ lastOp.op \notin {"get_all_tweens_for", "get_all_tweens"}
    /\ Exists(n) /\ InSeq(paused[1], n) /\ Resume(n)

QueryPauseTweens ==
  /\ lastOp.op \notin {"get_all_tweens_for", "get_all_tweens"}
  /\ active[1] # << >> /\ PauseTweens(1)

QueryResumeTweens ==
  /\ lastOp.op \notin {"get_all_tweens_for", "get_all_tweens"}
  /\ paused[1] # << >> /\ ResumeTweens(1)

QueryUpdate ==
  /\ lastOp.op \notin {"get_all_tweens_for", "get_all_tweens"}
  /\ active[1] # << >> /\ Update(1, 1) /\ UNCHANGED hist

QueryFor ==
  \E obj \in Owners, state \in Filters :
    /\ lastOp.op \notin {"get_all_tweens_for", "get_all_tweens"}
    /\ GetAllTweensFor(1, obj, state)

QueryAll ==
  \E state \in Filters :
    /\ lastOp.op \notin {"get_all_tweens_for", "get_all_tweens"}
    /\ GetAllTweens(1, state)

NextQuery ==
  \/ QueryCreate \/ QueryPause \/ QueryResume \/ QueryPauseTweens
  \/ QueryResumeTweens \/ QueryUpdate \/ QueryFor \/ QueryAll

SpecQuery ==
  Init /\ [][NextQuery]_vars

\* SpecEase: a caller evaluates one curve of the catalog, with p unset, at
\* an instant of the grid, or ease_random_int_bounce at any whole instant
\* with a range p.
EaseBegins == {0, EaseScale, -EaseScale}
EaseChanges == {EaseScale, 2 * EaseScale, -EaseScale}
EaseRanges == {<<0, 1>>, <<-1, 1>>, <<2, 3>>}

\* the instants 0, d/2 and d
EaseGrid(d) ==
  {t \in 0..d : t = 0 \/ 2 * t = d \/ t = d}

EaseInputs ==
  {[f |-> f, t |-> t, b |-> b, c |-> c, d |-> d, p |-> <<0, 1>>, r |-> 0, done |-> FALSE] :
     f \in Catalog, t \in 0..MaxDur, b \in EaseBegins, c \in EaseChanges, d \in 1..MaxDur}

RandomInputs ==
  {[f |-> "random_int_bounce", t |-> t, b |-> b, c |-> c, d |-> d, p |-> p,
    r |-> 0, done |-> FALSE] :
     t \in 0..MaxDur, b \in EaseBegins, c \in EaseChanges, d \in 1..MaxDur,
     p \in EaseRanges}

InitEase ==
  /\ nodes = [n \in NodeIds |-> NoNode]
  /\ active = [T \in Tweeners |-> << >>]
  /\ paused = [T \in Tweeners |-> << >>]
  /\ attr = [o \in Owners |-> [a \in AttrNames |-> 0]]
  /\ calls = [n \in NodeIds |-> 0]
  /\ trace = << >>
  /\ err = "none"
  /\ lastOp = Op("init", 0, 0)
  /\ clock = 0
  /\ \E e \in EaseInputs \cup RandomInputs :
       /\ e.t <= e.d
       /\ e.f \in Catalog => e.t \in EaseGrid(e.d)
       /\ hist = [NoHist EXCEPT !.ease = e]

\* f(t, b, c, d, None)
EaseCall ==
  /\ ~hist.ease.done
  /\ hist.ease.f \in Catalog
  /\ hist' = [hist EXCEPT !.ease.done = TRUE,
                          !.ease.r = Ease(hist.ease.f, hist.ease.t, hist.ease.b,
                                          hist.ease.c, hist.ease.d)]
  /\ lastOp' = Op("ease", 0, 0)
  /\ UNCHANGED <<nodes, active, paused, attr, calls, trace, err, clock>>

\* ease_random_int_bounce(t, b, c, d, p); random.randint(*p) returns any
\* whole number of the range
EaseRandom ==
  /\ ~hist.ease.done
  /\ hist.ease.f = "random_int_bounce"
  /\ \E randint \in (hist.ease.p[1])..(hist.ease.p[2]) :
       hist' = [hist EXCEPT !.ease.done = TRUE,
                            !.ease.r = ease_random_int_bounce(
                                         hist.ease.t, hist.ease.b, hist.ease.c,
                                         hist.ease.d, randint)]
  /\ lastOp' = Op("ease", 0, 0)
  /\ UNCHANGED <<nodes, active, paused, attr, calls, trace, err, clock>>

NextEase ==
  EaseCall \/ EaseRandom

SpecEase ==
  InitEase /\ [][NextEase]_vars

\* SpecReenter: the caller creates two running leaves whose end callbacks
\* act on the tweener: each callback records its call and then stops, pauses
\* or starts one of the two leaves, clears the tweener, creates a third leaf,
\* or does nothing more.  Then the caller may pause leaves, and then it
\* drives the engine with update(dt).
ReIds == {1, 2}

ReCbs(n) ==
  {UserCb(n), ActCb("do_clear", n), ActCb("do_create", 3)}
  \cup {ActCb(k, m) : k \in {"do_stop", "do_pause", "do_resume", "do_start"},
                      m \in ReIds}

ReCreate ==
  \E n \in ReIds :
    /\ FreeSlot(n, LeafIds)
    /\ \E d \in 1..MaxDur, delay \in 0..MaxDelay, cb \in ReCbs(n) :
         /\ n > 1 => delay = 0
         /\ CreateTweenCb(n, 1, 1, n, Scale, Change, d, delay, cb, TRUE, TRUE)

ReUpdate ==
  \E delta_time \in 0..MaxDt :
    Exists(2) /\ Update(1, delta_time) /\ UNCHANGED hist

RePause ==
  \E n \in ReIds :
    /\ lastOp.op # "update"
    /\ Exists(2) /\ InSeq(active[1], n) /\ Pause(n)

NextReenter ==
  ReCreate \/ RePause \/ ReUpdate

SpecReenter ==
  Init /\ [][NextReenter]_vars

\* SpecLists: the caller creates two running leaves of duration 1 with
\* callbacks that act on the tweener, and calls start, stop, pause and resume
\* on them and pause_tweens, resume_tweens, clear and update(dt) on the
\* tweener, in any order.  The callbacks of the first leaf start, stop and
\* pause either leaf, pause and resume all tweens, clear the tweener and
\* create a third leaf; the callback of the second leaf restarts the first.
\* Calls that find nothing to do (pause of a leaf that is not active, resume
\* of a leaf that is not paused, stop of an ended leaf, a bulk call on an
\* empty list) are left out, and the delta times are positive and add up to
\* MaxDt at most.
ListIds == {1, 2}

ListCbs(n) ==
  IF n = 1
  THEN {UserCb(n), ActCb("do_create", 3)}
       \cup {ActCb(k, n) : k \in {"do_clear", "do_pause_tweens", "do_resume_tweens"}}
       \cup {ActCb(k, m) : k \in {"do_stop", "do_pause", "do_start"}, m \in ListIds}
  ELSE {UserCb(n), ActCb("do_start", 1)}

Listed(n) ==
  InSeq(active[1], n) \/ InSeq(paused[1], n)

ListCreate ==
  \E n \in ListIds :
    /\ FreeSlot(n, LeafIds)
    /\ \E cb \in ListCbs(n) :
         CreateTweenCb(n, 1, 1, n, Scale, Change, 1, 0, cb, FALSE, TRUE)

ListStart ==
  \E n \in ListIds : Exists(2) /\ Start(n, FALSE)

ListStop ==
  \E n \in ListIds :
    Exists(2) /\ (Listed(n) \/ nodes[n].state # ended) /\ Stop(n)

ListPause ==
  \E n \in ListIds : Exists(2) /\ InSeq(active[1], n) /\ Pause(n)

ListResume ==
  \E n \in ListIds : Exists(2) /\ InSeq(paused[1], n) /\ Resume(n)

ListPauseTweens ==
  Exists(2) /\ active[1] # << >> /\ PauseTweens(1)

ListResumeTweens ==
  Exists(2) /\ paused[1] # << >> /\ ResumeTweens(1)

ListClear ==
  Exists(2) /\ (active[1] # << >> \/ paused[1] # << >>) /\ Clear(1)

ListUpdate ==
  \E delta_time \in 1..MaxDt :
    /\ Exists(2)
    /\ clock + delta_time <= MaxDt
    /\ Update(1, delta_time)
    /\ UNCHANGED hist

NextLists ==
  \/ ListCreate \/ ListStart \/ ListStop \/ ListPause \/ ListResume
  \/ ListPauseTweens \/ ListResumeTweens \/ ListClear \/ ListUpdate

SpecLists ==
  Init /\ [][NextLists]_vars

\* SpecDelay: the caller creates one absolute-mode leaf, with a start delay
\* or without, starts it once with immediate=False (in create_tween or by start()) and
\* then only calls update(dt): the delta times passed add up to the time since
\* the start.
DelayCreate ==
  \E b \in Begins, d \in 1..MaxDur, delay \in 0..MaxDelay,
     hasCb \in BOOLEAN, do_start \in BOOLEAN :
    CreateTween(1, 1, 1, 1, b, Change, d, delay, FALSE, hasCb, FALSE, do_start)

DelayStart ==
  Exists(1) /\ nodes[1].state = created /\ Start(1, FALSE)

DelayUpdate ==
  \E delta_time \in 0..MaxDt :
    /\ Exists(1) /\ nodes[1].state # created
    /\ Update(1, delta_time)
    /\ UNCHANGED hist

NextDelay ==
  DelayCreate \/ DelayStart \/ DelayUpdate

SpecDelay ==
  Init /\ [][NextDelay]_vars

\* SpecRestart: the caller creates two delay-free leaves with end callbacks
\* and do_start=False, composes them into one Serial or Parallel group with a
\* callback of its own, and then calls start, pause, resume and stop on the
\* group and update(dt) on the tweener, in any order.
RestartCreate ==
  \E n \in {1, 2}, d \in 1..MaxDur :
    /\ NoGroupYet
    /\ FreeSlot(n, LeafIds)
    /\ CreateTween(n, 1, 1, n, Scale, Change, d, 0, FALSE, TRUE, TRUE, FALSE)

RestartSerial ==
  NoGroupYet /\ NumLeaves = 2 /\ NewSerial(MaxLeaves + 1, Prefix(2), TRUE)

RestartParallel ==
  NoGroupYet /\ NumLeaves = 2 /\ NewParallel(MaxLeaves + 1, Prefix(2), TRUE)

RestartStart ==
  \E g \in GroupIds, immediate \in BOOLEAN : Exists(g) /\ Start(g, immediate)

RestartPause ==
  \E g \in GroupIds :
    Exists(g) /\ nodes[g].state = active_ /\ Pause(g)

RestartResume ==
  \E g \in GroupIds :
    Exists(g) /\ nodes[g].state = paused_ /\ Resume(g)

RestartStop ==
  \E g \in GroupIds :
    Exists(g) /\ nodes[g].state \in {active_, paused_} /\ Stop(g)

RestartUpdate ==
  \E delta_time \in 0..MaxDt :
    /\ \E g \in GroupIds : Exists(g) /\ nodes[g].state # created
    /\ Update(1, delta_time)
    /\ UNCHANGED hist

NextRestart ==
  \/ RestartCreate \/ RestartSerial \/ RestartParallel \/ RestartStart
  \/ RestartPause \/ RestartResume \/ RestartStop \/ RestartUpdate

SpecRestart ==
  Init /\ [][NextRestart]_vars

\* SpecNest: the caller creates three leaves with end callbacks and
\* do_start=False (at most one of them with a start delay), composes two
\* neighbours into an inner Parallel or Serial group, composes the inner group
\* and the third leaf into an outer Serial group (the inner group first, or
\* the leaf first), starts the outer group once and then calls update(dt).
\* Every group has a callback of its own.
Inner == MaxLeaves + 1
Outer == MaxLeaves + 2

NestCreate ==
  \E n \in 1..3, d \in 1..MaxDur, delay \in 0..MaxDelay :
    /\ NoGroupYet
    /\ FreeSlot(n, LeafIds)
    /\ delay > 0 => \A m \in LeafIds : nodes[m].delay = 0
    /\ CreateTween(n, 1, 1, n, Scale, Change, d, delay, FALSE, TRUE, TRUE, FALSE)

NestInner ==
  \E first \in {1, 2}, parallel \in BOOLEAN :
    /\ NumLeaves = 3
    /\ IF parallel
       THEN NewParallel(Inner, <<first, first + 1>>, TRUE)
       ELSE NewSerial(Inner, <<first, first + 1>>, TRUE)

NestOuter ==
  /\ Exists(Inner)
  /\ IF InSeq(nodes[Inner].tweens, 1)
     THEN NewSerial(Outer, <<Inner, 3>>, TRUE)
     ELSE NewSerial(Outer, <<1, Inner>>, TRUE)

NestStart ==
  \E immediate \in BOOLEAN :
    Exists(Outer) /\ nodes[Outer].state = created /\ Start(Outer, immediate)

NestUpdate ==
  \E delta_time \in 0..MaxDt :
    /\ Exists(Outer) /\ nodes[Outer].state # created
    /\ err = "none"
    /\ Update(1, delta_time)
    /\ UNCHANGED hist

NextNest ==
  NestCreate \/ NestInner \/ NestOuter \/ NestStart \/ NestUpdate

SpecNest ==
  Init /\ [][NextNest]_vars

\* tweener.start_tween(tween, immediate), called on the tweener T directly
StartTween(T, n, immediate) ==
  /\ Exists(n)
  /\ Commit(start_tween(St, T, n, immediate), Op("start_tween", n, T))
  /\ UNCHANGED <<clock, hist>>

\* SpecForeign: several tweeners; the caller creates two leaves (the first on
\* any tweener, the second on the first tweener), pauses and resumes them,
\* calls update(dt) on a tweener that has active tweens and calls start_tween
\* with any leaf on any tweener.
ForeignCreate ==
  \E n \in {1, 2} :
    /\ FreeSlot(n, LeafIds)
    /\ \E T \in Tweeners, d \in 1..MaxDur, do_start \in BOOLEAN :
         /\ n > 1 => (T = 1 /\ d = 1 /\ do_start)
         /\ CreateTween(n, T, 1, n, Scale, Change, d, 0, FALSE, TRUE, FALSE, do_start)

ForeignPause ==
  \E n \in {1, 2} : Exists(2) /\ InSeq(active[nodes[n].tweener], n) /\ Pause(n)

ForeignResume ==
  \E n \in {1, 2} : Exists(2) /\ InSeq(paused[nodes[n].tweener], n) /\ Resume(n)

ForeignUpdate ==
  \E T \in Tweeners, delta_time \in 1..MaxDt :
    /\ Exists(2)
    /\ clock + delta_time <= MaxDt
    /\ active[T] # << >>
    /\ Commit(update(St, T, delta_time), Op("update", T, 0))
    /\ clock' = clock + delta_time
    /\ UNCHANGED hist

ForeignStart ==
  \E T \in Tweeners, n \in {1, 2}, immediate \in BOOLEAN :
    Exists(2) /\ StartTween(T, n, immediate)

NextForeign ==
  ForeignCreate \/ ForeignPause \/ ForeignResume \/ ForeignUpdate \/ ForeignStart

SpecForeign ==
  Init /\ [][NextForeign]_vars

\* ------------------------------------------------------ properties: helpers
TraceCount(tr, e, n) ==
  Cardinality({i \in 1..Len(tr) : tr[i].e = e /\ tr[i].n = n})

HasWrite(tr, n, val) ==
  \E i \in 1..Len(tr) : tr[i].e = "write" /\ tr[i].n = n /\ tr[i].val = val

IsEvent(ev, e) ==
  ev.e = e

\* the leaf n was created with an end callback of its own (a group that runs
\* the leaf keeps it in _current_tween_cb or in _tween_callbacks)
OwnsCb(n) ==
  \/ nodes[n].cb = UserCb(n)
  \/ \E g \in GroupIds : \/ nodes[g].current_tween_cb = UserCb(n)
                         \/ nodes[g].tween_callbacks[n] = UserCb(n)

Children(g) ==
  Range(nodes[g].tweens)

IsSerial(g) ==
  nodes[g].kind = "serial"

IsParallel(g) ==
  nodes[g].kind = "parallel"

\* g is a group of leaves
LeafGroup(g) ==
  /\ Exists(g)
  /\ \A m \in Children(g) : nodes[m].kind = "tween"

\* the step is an update(dt) call
UpdateStep(dt) ==
  lastOp'.op = "update" /\ clock' = clock + dt

\* the child a started Serial runs, and whether it is in the active list
LiveChild(g) ==
  PyIndex(nodes[g].tweens, nodes[g].current_tween_index)

Running(g) ==
  /\ nodes[g].state = active_
  /\ LiveChild(g) # 0
  /\ InSeq(active[1], LiveChild(g))

\* the live child of g reaches its duration in update(dt), with this overtime
Finishes(g, dt) ==
  Running(g) /\ nodes[LiveChild(g)].t + dt >= nodes[LiveChild(g)].d

Overtime(g, dt) ==
  nodes[LiveChild(g)].t + dt - nodes[LiveChild(g)].d

\* the children that come after the live child: the rest of the list, or the
\* whole list again when a looping group has reached the end of its list
Candidates(g) ==
  LET nd == nodes[g]
      rest == SubSeq(nd.tweens, nd.current_tween_index + 2, Len(nd.tweens))
  IN IF rest = << >> /\ nd.is_looping THEN nd.tweens ELSE rest

\* how many children at the head of cand (from position i) have duration <= o
RECURSIVE LeadingPassed(_, _, _)
LeadingPassed(cand, o, i) ==
  IF i > Len(cand) \/ nodes[cand[i]].d > o THEN 0
  ELSE 1 + LeadingPassed(cand, o, i + 1)

Bool2Nat(p) ==
  IF p THEN 1 ELSE 0

\* ------------------------------------------------------------------------ C1
\* C1: for a standalone leaf in absolute mode with delay 0, the linear curve
\* and an end callback: an update that leaves its elapsed time t < d writes
\* b + c*t/d and fires no callback; the first update that makes t >= d writes
\* exactly b + c, removes the leaf from the active list, sets its state to
\* ended and invokes the callback exactly once, in that update, after the
\* write and with the leaf as argument; an update that finds the leaf outside
\* the active list neither invokes the callback nor writes the attribute.
WritesBy(tr, n) ==
  SelectSeq(tr, LAMBDA ev : ev.e = "write" /\ ev.n = n)

CallsOf(tr, n) ==
  SelectSeq(tr, LAMBDA ev : ev.e = "cb" /\ ev.n = n)

C1_Case(n) ==
  /\ nodes[n].kind = "tween"
  /\ ~IsChild(n)
  /\ ~nodes[n].delta_update
  /\ nodes[n].delay = 0
  /\ nodes[n].f = "linear"
  /\ nodes[n].cb = UserCb(n)

C1_Result(n, dt) ==
  LET nd == nodes[n]
      e == nd.t + dt
  IN /\ err' = "none"
     /\ IF InSeq(active[1], n)
        THEN IF e < nd.d
             THEN /\ WritesBy(trace', n) = << Event("write", n, nd.b + (nd.c * e) \div nd.d, 0, "") >>
                  /\ attr'[nd.o][nd.a] = nd.b + (nd.c * e) \div nd.d
                  /\ CallsOf(trace', n) = << >>
                  /\ calls'[n] = calls[n]
                  /\ Count(active'[1], n) = 1
                  /\ nodes'[n].state = active_
                  /\ nodes'[n].t = e
             ELSE /\ WritesBy(trace', n) = << Event("write", n, nd.b + nd.c, 0, "") >>
                  /\ attr'[nd.o][nd.a] = nd.b + nd.c
                  /\ CallsOf(trace', n) = << Event("cb", n, nd.b + nd.c, n, ended) >>
                  /\ calls'[n] = calls[n] + 1
                  /\ ~InSeq(active'[1], n) /\ ~InSeq(paused'[1], n)
                  /\ nodes'[n].state = ended
        ELSE /\ WritesBy(trace', n) = << >>
             /\ CallsOf(trace', n) = << >>
             /\ calls'[n] = calls[n]
             /\ nodes'[n] = nodes[n]

C2_StopResult(n) ==
  /\ err' = "none"
  /\ ~InSeq(active'[1], n) /\ ~InSeq(paused'[1], n)
  /\ nodes'[n].state = ended
  /\ nodes'[n].t = nodes[n].t
  /\ calls' = calls
  /\ trace' = << >>
  /\ attr' = attr

C2_Stopped(n) ==
  /\ nodes[n].kind = "tween"
  /\ nodes[n].state = ended
  /\ nodes[n].t < nodes[n].d
  /\ ~InSeq(active[1], n) /\ ~InSeq(paused[1], n)

C2_StaysStopped(n) ==
  /\ nodes'[n] = nodes[n]
  /\ ~InSeq(active'[1], n) /\ ~InSeq(paused'[1], n)
  /\ calls'[n] = calls[n]
  /\ WritesBy(trace', n) = << >>
  /\ CallsOf(trace', n) = << >>

C2_StopCancelsLeaf ==
  [][\A n \in LeafIds :
       /\ ( /\ nodes[n].kind = "tween"
            /\ InSeq(active[1], n) \/ InSeq(paused[1], n)
            /\ nodes[n].t < nodes[n].d
            /\ lastOp' = Op("stop", n, 0) ) => C2_StopResult(n)
       /\ ( /\ C2_Stopped(n)
            /\ lastOp'.op \in {"update", "pause", "resume", "stop"} ) => C2_StaysStopped(n)]_vars

C2_Witness ==
  /\ lastOp.op = "update"
  /\ trace # << >>
  /\ C2_Stopped(1)
  /\ nodes[1].t > 0
  /\ nodes[1].cb = UserCb(1)
  /\ calls[1] = 0
  /\ Len(active[1]) > 0

\* ------------------------------------------------------------------------ C3
\* C3: in a started Serial group of delay-free leaves, when the live child
\* reaches elapsed e >= d in an update and the next child's duration exceeds
\* e - d, that same update has written the finished child's terminal value
\* b + c, has invoked its own callback exactly once, and leaves the next child
\* as the only active tween, with elapsed exactly e - d.
C3_Case(g, dt) ==
  /\ IsSerial(g)
  /\ LeafGroup(g)
  /\ \A m \in Children(g) : nodes[m].delay = 0
  /\ Finishes(g, dt)
  /\ Candidates(g) # << >>
  /\ nodes[Candidates(g)[1]].d > Overtime(g, dt)

C3_Result(g, dt) ==
  LET ch == LiveChild(g)
      nx == Candidates(g)[1]
  IN /\ err' = "none"
     /\ HasWrite(trace', ch, nodes[ch].b + nodes[ch].c)
     /\ calls'[ch] = calls[ch] + Bool2Nat(OwnsCb(ch))
     /\ TraceCount(trace', "cb", ch) = Bool2Nat(OwnsCb(ch))
     /\ active'[1] = << nx >>
     /\ nodes'[nx].state = active_
     /\ nodes'[nx].t = Overtime(g, dt)

C3_SerialCarriesOvertime ==
  [][\A g \in GroupIds, dt \in 0..MaxDt :
       (C3_Case(g, dt) /\ UpdateStep(dt)) => C3_Result(g, dt)]_vars

C3_Witness ==
  \E g \in GroupIds :
    /\ IsSerial(g) /\ ~nodes[g].is_looping
    /\ lastOp.op = "update"
    /\ nodes[g].current_tween_index = 1
    /\ \A m \in Children(g) : nodes[m].delay = 0
    /\ active[1] = << LiveChild(g) >>
    /\ nodes[LiveChild(g)].t > 0
    /\ TraceCount(trace, "start", LiveChild(g)) = 1
    /\ TraceCount(trace, "cb", nodes[g].tweens[1]) = 1
    /\ calls[nodes[g].tweens[1]] = 1

\* ------------------------------------------------------------------------ C4
\* C4: when the live child of a started Serial group of leaves finishes in an
\* update with overtime o, every following child with duration <= o is passed
\* over in list order: it is not put into the active list, its end callback
\* (if any) is invoked once and its terminal value b + c is written in that
\* update; the first child with duration > o is started live with elapsed
\* o - delay (o undiminished), and if there is none the group completes in
\* that update: no child is active and the group's own callback has run.
C4_Case(g, dt) ==
  /\ IsSerial(g)
  /\ LeafGroup(g)
  /\ Finishes(g, dt)

C4_Result(g, dt) ==
  LET ch == LiveChild(g)
      o == Overtime(g, dt)
      cand == Candidates(g)
      k == LeadingPassed(cand, o, 1)
      skips == SelectSeq(trace', LAMBDA ev : IsEvent(ev, "skip"))
      live == IF k < Len(cand) THEN cand[k + 1] ELSE 0
  IN /\ err' = "none"
     /\ Len(skips) = k
     /\ \A i \in 1..k :
          /\ skips[i].n = cand[i]
          /\ HasWrite(trace', cand[i], nodes[cand[i]].b + nodes[cand[i]].c)
          /\ TraceCount(trace', "start", cand[i]) = Bool2Nat(cand[i] = live)
     /\ \A m \in Children(g) :
          calls'[m] = calls[m] + Bool2Nat(OwnsCb(m))
                        * (Bool2Nat(m = ch) + Cardinality({i \in 1..k : cand[i] = m}))
     /\ IF live # 0
        THEN /\ active'[1] = << live >>
             /\ nodes'[live].t = o - nodes[live].delay
        ELSE /\ active'[1] = << >>
             /\ nodes[g].cb # NoCb => calls'[g] > calls[g]

C4_SerialPassesOverShortChildren ==
  [][\A g \in GroupIds, dt \in 0..MaxDt :
       (C4_Case(g, dt) /\ UpdateStep(dt)) => C4_Result(g, dt)]_vars

C4_Witness ==
  \E g \in GroupIds :
    /\ IsSerial(g) /\ ~nodes[g].is_looping
    /\ lastOp.op = "update"
    /\ Len(nodes[g].tweens) = 3
    /\ nodes[g].current_tween_index = 2
    /\ TraceCount(trace, "skip", nodes[g].tweens[2]) = 1
    /\ TraceCount(trace, "cb", nodes[g].tweens[2]) = 1
    /\ TraceCount(trace, "start", nodes[g].tweens[2]) = 0
    /\ active[1] = << nodes[g].tweens[3] >>
    /\ nodes[nodes[g].tweens[3]].t > 0

\* ------------------------------------------------------------------------ C5
\* C5: in a started Parallel group of leaves advanced by updates, each child's
\* own callback is invoked exactly once, in the update in which that child
\* reaches its duration, and the group's own callback is invoked exactly once,
\* after the children's callbacks of the update in which the last running
\* child reaches its duration (when every delay + duration has passed), and
\* in no other update.
C5_Result(g, dt) ==
  LET running == {m \in Children(g) : InSeq(active[1], m)}
      done == {m \in running : nodes[m].t + dt >= nodes[m].d}
      last == running # {} /\ done = running
  IN /\ err' = "none"
     /\ \A m \in Children(g) :
          /\ calls'[m] = calls[m] + Bool2Nat(m \in done /\ OwnsCb(m))
          /\ calls'[m] <= 1
     /\ calls'[g] = calls[g] + Bool2Nat(last /\ nodes[g].cb # NoCb)
     /\ calls'[g] <= 1
     /\ calls'[g] > calls[g] =>
          /\ trace'[Len(trace')].e = "cb" /\ trace'[Len(trace')].n = g
          /\ \A m \in Children(g) : nodes[m].delay + nodes[m].d <= clock'
          /\ \E m \in Children(g) : nodes[m].delay + nodes[m].d > clock

C5_ParallelCallbacksOnce ==
  [][\A g \in GroupIds, dt \in 0..MaxDt :
       (IsParallel(g) /\ LeafGroup(g) /\ nodes[g].state = active_
          /\ UpdateStep(dt))
         => C5_Result(g, dt)]_vars

C5_Witness ==
  \E g \in GroupIds :
    /\ IsParallel(g)
    /\ Len(nodes[g].tweens) = 3
    /\ calls[g] = 1
    /\ \A m \in Children(g) : calls[m] = 1 /\ nodes[m].state = ended
    /\ nodes[1].d + nodes[1].delay < nodes[2].d + nodes[2].delay
    /\ nodes[2].d + nodes[2].delay < nodes[3].d + nodes[3].delay
    /\ TraceCount(trace, "cb", 1) = 0
    /\ TraceCount(trace, "cb", 2) = 0
    /\ TraceCount(trace, "cb", 3) = 1

\* ------------------------------------------------------------------------ C6
\* the group g is leaf.repeat(n) with n >= 1, started, and every update so far
\* passed exactly the leaf's duration
C6_Case(g) ==
  /\ IsSerial(g)
  /\ LeafGroup(g)
  /\ hist.rep[g] >= 1
  /\ Children(g) = {1}
  /\ nodes[g].state # created
  /\ clock > 0
  /\ hist.dtAll = nodes[1].d

\* after k such updates the leaf's callback has run min(k, n) times and the
\* group's callback once if k >= n and not at all before
C6_Counts(g) ==
  LET n == hist.rep[g]
      k == clock \div nodes[1].d
  IN /\ calls[1] = Bool2Nat(OwnsCb(1)) * (IF k < n THEN k ELSE n)
     /\ calls[g] = Bool2Nat(nodes[g].cb # NoCb /\ k >= n)

\* C6 as stated: for every leaf and every n >= 1, leaf.repeat(n) advanced by
\* updates of exactly dt = duration fires the leaf's callback once per update
\* for n updates and the group's callback once, during the n-th update.
C6_RepeatAnyLeaf ==
  \A g \in GroupIds : C6_Case(g) => C6_Counts(g)

\* C6 amended: the same for a leaf created with delay = 0.
C6_RepeatDelayFreeLeaf ==
  \A g \in GroupIds : (C6_Case(g) /\ nodes[1].delay = 0) => C6_Counts(g)

C6_Witness ==
  \E g \in GroupIds :
    /\ C6_Case(g)
    /\ nodes[1].delay = 0
    /\ hist.rep[g] = 3
    /\ clock = 3 * nodes[1].d
    /\ calls[1] = 3
    /\ calls[g] = 1

\* ------------------------------------------------------------------------ C7
\* C7: a delta-mode linear leaf with change C, created and started through
\* create_tween with either value of the immediate flag on an attribute whose
\* value at creation is V0, with external code adding E before each update:
\* after the update in which the leaf ends the attribute equals
\* V0 + (sum of the external increments) + C.
C7_Ended(n) ==
  /\ nodes[n].kind = "tween"
  /\ nodes[n].delta_update
  /\ nodes[n].f = "linear"
  /\ nodes[n].state = ended
  /\ nodes[n].t >= nodes[n].d
  /\ lastOp.op = "update"

C7_DeltaAddsChangeOnly ==
  \A n \in LeafIds :
    C7_Ended(n) =>
      attr[nodes[n].o][nodes[n].a] = hist.v0[n] + hist.ext[n] + nodes[n].c

\* ------------------------------------------------------------------------ C8
\* C8: a started non-looping Serial group of leaves invokes its own end
\* callback at most once, exactly in the update in which its live child
\* finishes and every child after it is passed over (or there is none), as
\* the last callback of that update and with no child left in the active or
\* paused list; no other step invokes it.
C8_Completes(g, dt) ==
  /\ Finishes(g, dt)
  /\ LeadingPassed(Candidates(g), Overtime(g, dt), 1) = Len(Candidates(g))

C8_Step(g) ==
  /\ calls'[g] <= 1
  /\ IF \E dt \in 0..MaxDt : UpdateStep(dt) /\ C8_Completes(g, dt)
     THEN /\ calls'[g] = calls[g] + Bool2Nat(nodes[g].cb # NoCb)
          /\ \A m \in Children(g) : ~InSeq(active'[1], m) /\ ~InSeq(paused'[1], m)
          /\ nodes'[g].current_tween_index = Len(nodes[g].tweens) - 1
          /\ nodes[g].cb # NoCb =>
               /\ trace'[Len(trace')].e = "cb"
               /\ trace'[Len(trace')].n = g
               /\ trace'[Len(trace')].arg = g
     ELSE calls'[g] = calls[g]

C8_SerialOwnCallbackOnce ==
  [][\A g \in GroupIds :
       (IsSerial(g) /\ ~nodes[g].is_looping /\ LeafGroup(g)) => C8_Step(g)]_vars

C8_Witness ==
  \E g \in GroupIds :
    /\ IsSerial(g) /\ ~nodes[g].is_looping
    /\ Len(nodes[g].tweens) = 3
    /\ Cardinality(Children(g)) = 3
    /\ lastOp.op = "update"
    /\ calls[g] = 1
    /\ calls[nodes[g].tweens[1]] = 1
    /\ TraceCount(trace, "cb", nodes[g].tweens[1]) = 0
    /\ trace # << >>
    /\ trace[Len(trace)].e = "cb" /\ trace[Len(trace)].n = g

\* ------------------------------------------------------------------------ C9
\* C9: whenever the own callback of a Parallel or of a non-looping Serial is
\* invoked on natural completion, the group's state field is ended at that
\* moment, and it is ended from then on.
C9_CompositeEndedAtOwnCallback ==
  \A g \in GroupIds :
    (Exists(g) /\ ~nodes[g].is_looping) =>
      /\ \A i \in 1..Len(trace) :
           (trace[i].e = "cb" /\ trace[i].n = g /\ trace[i].arg = g)
             => trace[i].st = ended
      /\ calls[g] > 0 => nodes[g].state = ended

\* ----------------------------------------------------------------------- C10
\* C10: a looping Serial (repeat(n), n < 1), once started, has exactly one of
\* its leaves in the active list after every update(dt), dt >= 0.
C10_LoopingSerialKeepsRunning ==
  \A g \in GroupIds :
    (IsSerial(g) /\ nodes[g].is_looping /\ nodes[g].state # created
       /\ lastOp.op = "update")
      => /\ Len(active[1]) = 1
         /\ active[1][1] \in Children(g)

\* ----------------------------------------------------------------------- C11
\* C11: a looping Serial that exhausts its child list restarts from its first
\* child without invoking its own end callback: the own callback of a looping
\* Serial is never invoked.
C11_LoopingSerialNeverCallsOwnCallback ==
  \A g \in GroupIds :
    (IsSerial(g) /\ nodes[g].is_looping) => calls[g] = 0

\* ----------------------------------------------------------------------- C12
\* C12: a group constructor (next, parallel, repeat) called by tweener T with
\* children tweens raises TweenBelongsToOtherTweenerException only if, and
\* whenever only, a child of another tweener is among them, and
\* TweenNotInAppropriateStateException only if, and whenever only, a child
\* whose state is not created is among them; it raises one of the two if
\* either kind of child is among them and then makes no group; otherwise the
\* new group exists in state created with these children, and the active and
\* paused lists and every other object are as before.
C12_OtherTweener(T, tweens) ==
  \E i \in 1..Len(tweens) : nodes[tweens[i]].tweener # T

C12_NotCreated(tweens) ==
  \E i \in 1..Len(tweens) : nodes[tweens[i]].state # created

C12_Result(g, T, tweens) ==
  /\ err' \in {"none", "TweenBelongsToOtherTweenerException",
               "TweenNotInAppropriateStateException"}
  /\ (C12_OtherTweener(T, tweens) \/ C12_NotCreated(tweens)) <=> err' # "none"
  /\ err' = "TweenBelongsToOtherTweenerException" => C12_OtherTweener(T, tweens)
  /\ err' = "TweenNotInAppropriateStateException" => C12_NotCreated(tweens)
  /\ active' = active /\ paused' = paused /\ attr' = attr /\ calls' = calls
  /\ \A m \in NodeIds : m # g => nodes'[m] = nodes[m]
  /\ IF err' = "none"
     THEN /\ nodes'[g].kind = (IF lastOp'.op = "parallel" THEN "parallel" ELSE "serial")
          /\ nodes'[g].state = created
          /\ nodes'[g].tweener = T
          /\ nodes'[g].tweens = tweens
     ELSE nodes'[g] = nodes[g]

C12_GroupConstructorValidates ==
  [][\A g \in GroupIds :
       (lastOp'.op \in {"next", "parallel", "repeat"} /\ lastOp'.n = g)
         => C12_Result(g, hist'.call.T, hist'.call.tweens)]_vars

\* a group exists (an earlier call succeeded) and the last call was refused
\* for its first child, which is not in state created, while its second child
\* belongs to another tweener
C12_Witness ==
  /\ lastOp.op \in {"next", "parallel"}
  /\ err = "TweenNotInAppropriateStateException"
  /\ \E g \in GroupIds : Exists(g)
  /\ Len(hist.call.tweens) = 2
  /\ nodes[hist.call.tweens[1]].tweener = hist.call.T
  /\ nodes[hist.call.tweens[2]].tweener # hist.call.T
  /\ \E g \in GroupIds : ~Exists(g)

\* ----------------------------------------------------------------------- C13
\* C13: a node that is a child of one composite is never a child of a second
\* composite (the construction of the second one fails).
C13_NoSharedChild ==
  \A n \in NodeIds :
    Cardinality({g \in GroupIds : InSeq(nodes[g].tweens, n)}) <= 1

\* C13 amended: a node that is a child of one composite can become a child of
\* a second composite only while its state is still created: a constructor
\* called with a child of an existing composite that has been started, paused
\* or stopped fails with a validation error and makes no group, and a
\* constructor called with children of its own tweener that are all in state
\* created succeeds, whether or not they have a parent already.
C13_Shared(tweens) ==
  {n \in Range(tweens) : IsChild(n)}

C13_Result(g, T, tweens) ==
  /\ (\E n \in C13_Shared(tweens) : nodes[n].state # created) =>
       /\ err' \in {"TweenNotInAppropriateStateException",
                    "TweenBelongsToOtherTweenerException"}
       /\ nodes' = nodes
  /\ (\A n \in Range(tweens) : nodes[n].state = created /\ nodes[n].tweener = T) =>
       /\ err' = "none"
       /\ nodes'[g].tweens = tweens
       /\ \A n \in C13_Shared(tweens) :
            Cardinality({h \in GroupIds : InSeq(nodes'[h].tweens, n)}) = 2

C13_SharedChildOnlyWhileCreated ==
  [][\A g \in GroupIds :
       (lastOp'.op \in {"next", "parallel", "repeat"} /\ lastOp'.n = g)
         => C13_Result(g, hist'.call.T, hist'.call.tweens)]_vars

\* the second constructor was refused for a leaf that the first group holds
\* and that is ended since that group has been stopped
C13_Witness ==
  /\ lastOp.op \in {"next", "parallel", "repeat"}
  /\ err = "TweenNotInAppropriateStateException"
  /\ hist.call.tweens # << >>
  /\ \A i \in 1..Len(hist.call.tweens) :
       /\ hist.call.tweens[i] \in LeafIds
       /\ IsChild(hist.call.tweens[i])
       /\ nodes[hist.call.tweens[i]].state = ended
       /\ nodes[hist.call.tweens[i]].tweener = hist.call.T

\* ----------------------------------------------------------------------- C14
\* C14: create_tween and create_tween_by_end called with a duration <= 0 fail
\* at creation: the call raises, no tween object comes into being, the active
\* and the paused list are as before and no attribute is written; with a
\* duration > 0 the leaf is created.
C14_Result(n, d) ==
  IF d <= 0
  THEN /\ err' = "AssertionError"
       /\ nodes' = nodes
       /\ active' = active
       /\ paused' = paused
       /\ attr' = attr
       /\ trace' = << >>
       /\ calls' = calls
  ELSE /\ err' = "none"
       /\ nodes'[n].kind = "tween"
       /\ nodes'[n].d = d

C14_NoLeafWithoutDuration ==
  [][\A n \in LeafIds, d \in -1..MaxDur :
       ( /\ lastOp'.op \in {"create_tween", "create_tween_by_end"}
         /\ lastOp'.n = n /\ lastOp'.x = d ) => C14_Result(n, d)]_vars

\* create_tween_by_end has refused a negative duration for the second leaf
\* while the first leaf is registered and has written its attribute
C14_Witness ==
  /\ lastOp = Op("create_tween_by_end", 2, -1)
  /\ err = "AssertionError"
  /\ ~Exists(2)
  /\ Len(active[1]) + Len(paused[1]) = 1
  /\ nodes[1].t > 0
  /\ attr[1][1] # 0
  /\ attr[1][2] = 0

\* ----------------------------------------------------------------------- C15
\* C15: once the state of a node is ended, no operation of the engine moves
\* it to another state.
C15_EndedIsTerminal ==
  [][\A n \in NodeIds :
       (Exists(n) /\ nodes[n].state = ended) => nodes'[n].state = ended]_vars

\* ----------------------------------------------------------------------- C16
\* C16: after start(immediate) on a leaf in any state (created, active,
\* paused, ended) the leaf is in the active list exactly once and not in the
\* paused list, its state is active, its elapsed time is -delay and its cached
\* value is begin; the attribute equals begin if immediate is True, whatever
\* the delay, and is unchanged otherwise; no callback is invoked.
C16_Result(n, immediate) ==
  LET nd == nodes[n]
  IN /\ err' = "none"
     /\ Count(active'[nd.tweener], n) = 1
     /\ ~InSeq(paused'[nd.tweener], n)
     /\ nodes'[n].state = active_
     /\ nodes'[n].t = -nd.delay
     /\ nodes'[n].v = nd.b
     /\ attr'[nd.o][nd.a] = (IF immediate = 1 THEN nd.b ELSE attr[nd.o][nd.a])
     /\ calls' = calls
     /\ \A m \in NodeIds : m # n => nodes'[m] = nodes[m]

C16_StartResetsLeaf ==
  [][\A n \in LeafIds, immediate \in {0, 1} :
       (nodes[n].kind = "tween" /\ lastOp' = Op("start", n, immediate))
         => C16_Result(n, immediate)]_vars

\* a delayed leaf that had run to its end (its callback was invoked) has been
\* started again with immediate = True
C16_Witness ==
  /\ lastOp = Op("start", 1, 1)
  /\ calls[1] = 1
  /\ nodes[1].delay > 0
  /\ nodes[1].b # 0
  /\ nodes[1].state = active_
  /\ nodes[1].t = -nodes[1].delay
  /\ attr[1][1] = nodes[1].b
  /\ clock > 0

\* ----------------------------------------------------------------------- C17
\* C17: pause() on an active leaf moves it to the paused list and sets its
\* state to paused without changing its elapsed time; an update that finds it
\* in the paused list changes neither its elapsed time nor its attribute and
\* does not invoke its callback; resume() on a paused leaf moves it back to
\* the active list with state active and the elapsed time it has.
C17_Pause(n) ==
  /\ err' = "none"
  /\ ~InSeq(active'[1], n)
  /\ Count(paused'[1], n) = 1
  /\ nodes'[n] = [nodes[n] EXCEPT !.state = paused_]
  /\ attr' = attr /\ calls' = calls /\ trace' = << >>

C17_Paused(n) ==
  /\ err' = "none"
  /\ nodes'[n] = nodes[n]
  /\ InSeq(paused'[1], n) /\ ~InSeq(active'[1], n)
  /\ attr'[nodes[n].o][nodes[n].a] = attr[nodes[n].o][nodes[n].a]
  /\ WritesBy(trace', n) = << >>
  /\ CallsOf(trace', n) = << >>
  /\ calls'[n] = calls[n]

C17_Resume(n) ==
  /\ err' = "none"
  /\ ~InSeq(paused'[1], n)
  /\ Count(active'[1], n) = 1
  /\ nodes'[n] = [nodes[n] EXCEPT !.state = active_]
  /\ attr' = attr /\ calls' = calls /\ trace' = << >>

C17_PauseResumeKeepElapsed ==
  [][\A n \in LeafIds :
       /\ (InSeq(active[1], n) /\ lastOp' = Op("pause", n, 0)) => C17_Pause(n)
       /\ (InSeq(paused[1], n) /\ lastOp'.op = "update") => C17_Paused(n)
       /\ (InSeq(paused[1], n) /\ lastOp' = Op("resume", n, 0)) => C17_Resume(n)]_vars

\* the leaf has been resumed in the middle of its run, after more time has
\* passed in updates than it has been running
C17_Witness ==
  /\ lastOp = Op("resume", 1, 0)
  /\ nodes[1].state = active_
  /\ InSeq(active[1], 1)
  /\ nodes[1].t > 0
  /\ nodes[1].t < nodes[1].d
  /\ clock >= nodes[1].t + nodes[1].delay + 2
  /\ nodes[1].cb = UserCb(1)
  /\ calls[1] = 0

\* ----------------------------------------------------------------------- C18
\* C18: resume() on a leaf that is not in the paused list (created, active,
\* ended or never paused) raises an error to the caller.
C18_ResumeOfUnpausedRaises ==
  [][\A n \in LeafIds :
       ( /\ nodes[n].kind = "tween"
         /\ ~InSeq(paused[nodes[n].tweener], n)
         /\ lastOp' = Op("resume", n, 0) ) => err' # "none"]_vars

\* ----------------------------------------------------------------------- C19
\* the leaf n is in neither list of its tweener
C19_Unregistered(n) ==
  /\ nodes[n].kind = "tween"
  /\ ~InSeq(active[nodes[n].tweener], n)
  /\ ~InSeq(paused[nodes[n].tweener], n)

\* C19 as stated: stop() on a leaf that is in neither list is a no-op: no
\* error is raised and the lists and the state of the leaf are unchanged.
C19_StopOfUnregisteredIsNoOp ==
  [][\A n \in LeafIds :
       (C19_Unregistered(n) /\ lastOp' = Op("stop", n, 0)) =>
         /\ err' = "none"
         /\ active' = active /\ paused' = paused
         /\ nodes'[n].state = nodes[n].state]_vars

\* C19 amended: stop() on a leaf that is in neither list raises no error and
\* leaves the lists, the attributes and every field of the leaf but its state
\* unchanged, and invokes no callback; the state of the leaf is ended
\* afterwards (unchanged only if it was ended already).
C19_StopOfUnregisteredOnlyEnds ==
  [][\A n \in LeafIds :
       (C19_Unregistered(n) /\ lastOp' = Op("stop", n, 0)) =>
         /\ err' = "none"
         /\ active' = active /\ paused' = paused
         /\ nodes' = [nodes EXCEPT ![n].state = ended]
         /\ attr' = attr /\ calls' = calls /\ trace' = << >>]_vars

\* the leaf has been stopped before any update, it is ended and in no list,
\* and its attribute has never been written
C19_Witness ==
  /\ lastOp = Op("stop", 1, 0)
  /\ clock = 0
  /\ nodes[1].state = ended
  /\ nodes[1].t = -nodes[1].delay
  /\ nodes[1].b # 0
  /\ attr[1][1] = 0
  /\ active[1] = << >> /\ paused[1] = << >>

\* ----------------------------------------------------------------------- C20
\* the leaf n has been dropped by clear(): it still says that it is active or
\* paused, but it is in neither list of its tweener
C20_Cleared(n) ==
  /\ Exists(n)
  /\ nodes[n].kind = "tween"
  /\ nodes[n].state \in {active_, paused_}
  /\ ~InSeq(active[nodes[n].tweener], n)
  /\ ~InSeq(paused[nodes[n].tweener], n)

\* C20: clear() empties the active and the paused list and invokes no
\* callback (it writes no attribute and changes no tween either), and no later
\* update() writes the attribute or invokes the callback of a tween that
\* clear() has dropped: such a tween is not advanced any more.
C20_ClearDropsEverything ==
  [][/\ lastOp' = Op("clear", 1, 0) =>
          /\ active'[1] = << >> /\ paused'[1] = << >>
          /\ trace' = << >>
          /\ calls' = calls /\ attr' = attr /\ nodes' = nodes
          /\ err' = "none"
     /\ lastOp'.op = "update" =>
          \A n \in LeafIds :
            C20_Cleared(n) =>
              /\ WritesBy(trace', n) = << >>
              /\ CallsOf(trace', n) = << >>
              /\ calls'[n] = calls[n]
              /\ attr'[nodes[n].o][nodes[n].a] = attr[nodes[n].o][nodes[n].a]
              /\ nodes'[n] = nodes[n]]_vars

\* an update after a clear has advanced the second leaf, which was created
\* after the clear, while the first leaf, dropped by the clear when it was
\* running, has neither been advanced to its end nor called back
C20_Witness ==
  /\ lastOp.op = "update"
  /\ clock >= 2
  /\ C20_Cleared(1)
  /\ nodes[1].state = active_
  /\ nodes[1].cb = UserCb(1)
  /\ nodes[1].d > 0 /\ nodes[1].t < nodes[1].d
  /\ calls[1] = 0
  /\ WritesBy(trace, 2) # << >>
  /\ WritesBy(trace, 1) = << >>

\* ----------------------------------------------------------------------- C21
\* the tweens registered with tweener 1
C21_Registered ==
  {n \in NodeIds : InSeq(active[1], n) \/ InSeq(paused[1], n)}

\* the tweens a query for obj (0: every owner) and state has to return
C21_Expected(obj, state) ==
  {n \in C21_Registered :
     /\ obj # 0 => nodes[n].o = obj
     /\ state # None => nodes[n].state = state}

\* C21: a query with an accepted state filter (None or a key of
\* TweenStateNames) raises nothing and returns exactly the registered tweens
\* of the given owner (of every owner for get_all_tweens) whose state field
\* equals the filter, each of them once, whatever pause, resume, pause_tweens
\* and resume_tweens calls came before.
C21_QueryReturnsTweensInState ==
  (/\ lastOp.op \in {"get_all_tweens_for", "get_all_tweens"}
   /\ hist.got.state \in {None} \cup TweenStateNames)
  => /\ hist.got.err = "none"
     /\ Range(hist.got.result) = C21_Expected(hist.got.obj, hist.got.state)
     /\ Len(hist.got.result) = Cardinality(C21_Expected(hist.got.obj, hist.got.state))

\* ----------------------------------------------------------------------- C22
\* C22: every curve f of the catalog other than ease_random_int_bounce
\* returns exactly b at t = 0 and exactly b + c at t = d, for all b, c and
\* d > 0, with p unset.
C22_CurvesMeetTheirEndpoints ==
  (hist.ease.done /\ hist.ease.f \in Catalog)
  => /\ hist.ease.t = 0 => hist.ease.r = hist.ease.b
     /\ hist.ease.t = hist.ease.d => hist.ease.r = hist.ease.b + hist.ease.c

\* ----------------------------------------------------------------------- C23
\* C23: ease_random_int_bounce(t, b, c, d, (low, high)) returns b at t = 0 and
\* b + c at t = d, and at every instant between a value of the range
\* [low, high], for every begin value b.
C23_RandomBounceStaysInRange ==
  (hist.ease.done /\ hist.ease.f = "random_int_bounce")
  => /\ hist.ease.t = 0 => hist.ease.r = hist.ease.b
     /\ hist.ease.t = hist.ease.d => hist.ease.r = hist.ease.b + hist.ease.c
     /\ (0 < hist.ease.t /\ hist.ease.t < hist.ease.d)
          => /\ hist.ease.p[1] * EaseScale <= hist.ease.r
             /\ hist.ease.r <= hist.ease.p[2] * EaseScale

\* ----------------------------------------------------------------------- C24
\* the leaves of the active list that update(dt) writes, and those with an
\* end callback that reach their duration in it
C24_Written(dt) ==
  SelectSeq(active[1], LAMBDA n : nodes[n].t + dt >= 0)

C24_Ended(dt) ==
  SelectSeq(active[1], LAMBDA n : /\ nodes[n].t + dt >= 0
                                  /\ nodes[n].t + dt >= nodes[n].d
                                  /\ nodes[n].cb # NoCb)

C24_CallEvents(tr) ==
  SelectSeq(tr, LAMBDA ev : ev.e = "cb")

C24_Started(tr, n) ==
  \E i \in 1..Len(tr) : tr[i].e = "start" /\ tr[i].n = n

C24_Value(n, dt) ==
  LET nd == nodes[n]
  IN Ease(nd.f, IF nd.t + dt >= nd.d THEN nd.d ELSE nd.t + dt, nd.b, nd.c, nd.d)

C24_Result(dt) ==
  /\ Len(trace') >= Len(C24_Written(dt))
  /\ \A i \in 1..Len(C24_Written(dt)) :
       trace'[i] = Event("write", C24_Written(dt)[i],
                         C24_Value(C24_Written(dt)[i], dt), 0, "")
  /\ \A i \in 1..Len(active[1]) :
       C24_Started(trace', active[1][i])
       \/ nodes'[active[1][i]].t = nodes[active[1][i]].t + dt
  /\ Len(C24_CallEvents(trace')) = Len(C24_Ended(dt))
  /\ \A i \in 1..Len(C24_Ended(dt)) :
       C24_CallEvents(trace')[i].arg = C24_Ended(dt)[i]

\* C24: in one update(dt) call every tween of the active list is advanced by
\* dt once and its value written before any end callback is invoked (the
\* writes are the first events of the call, in list order), and then the
\* callbacks of the tweens that reached their duration in the call are
\* invoked, each once, in the order in which those tweens were advanced.
C24_UpdateAdvancesThenCallsBack ==
  [][\A dt \in 0..MaxDt : UpdateStep(dt) => C24_Result(dt)]_vars

\* ----------------------------------------------------------------------- C25
\* C25: whatever the end callbacks fired inside update do to the tweens of
\* the tweener (stop, pause, clear, also on tweens that reached their duration
\* in the same call and have not been called back yet), update raises no
\* error.
C25_UpdateSurvivesCallbacks ==
  [][lastOp'.op = "update" => err' = "none"]_vars

\* ----------------------------------------------------------------------- C26
\* the events of the call from the first start of the leaf n on
C26_SinceStart(tr, n) ==
  LET k == CHOOSE i \in 1..Len(tr) :
             /\ tr[i].e = "start" /\ tr[i].n = n
             /\ \A j \in 1..(i - 1) : ~(tr[j].e = "start" /\ tr[j].n = n)
  IN SubSeq(tr, k, Len(tr))

\* every write of n in tr comes right after a start of n and writes f(0)
C26_OnlySeeded(tr, n) ==
  \A i \in 1..Len(tr) :
    (tr[i].e = "write" /\ tr[i].n = n)
    => /\ i > 1
       /\ tr[i - 1].e = "start" /\ tr[i - 1].n = n
       /\ tr[i].val = Ease(nodes'[n].f, 0, nodes'[n].b, nodes'[n].c, nodes'[n].d)

\* C26: a tween that a user end callback creates or starts during update(dt)
\* is not advanced in that call: when update returns its elapsed time is
\* -delay, and since its start it has written the attribute only through the
\* immediate seeding of start.
C26_StartedInCallbackWaits ==
  [][lastOp'.op = "update" =>
       \A n \in LeafIds :
         C24_Started(trace', n) =>
           /\ nodes'[n].t = -nodes'[n].delay
           /\ C26_OnlySeeded(C26_SinceStart(trace', n), n)]_vars

\* an update that advanced both leaves has called back the first leaf, whose
\* callback created the third leaf with a delay: the third leaf is running,
\* has been seeded and has not been advanced
C26_Witness ==
  /\ lastOp.op = "update"
  /\ err = "none"
  /\ clock >= 2
  /\ nodes[1].cb = ActCb("do_create", 3)
  /\ nodes[1].state = ended
  /\ CallsOf(trace, 1) # << >>
  /\ WritesBy(trace, 2) # << >>
  /\ C24_Started(trace, 3)
  /\ nodes[3].delay = 1
  /\ nodes[3].t = -1
  /\ nodes[3].state = active_
  /\ InSeq(active[1], 3)
  /\ attr[1][3] = Scale

\* ----------------------------------------------------------------------- C27
\* g is a Serial group of distinct leaves that all have an end callback
C27_Case(g) ==
  /\ IsSerial(g) /\ LeafGroup(g)
  /\ Cardinality(Children(g)) = Len(nodes[g].tweens)
  /\ \A m \in Children(g) : OwnsCb(m)

\* the callback of n had been invoked before this call, or is invoked in
\* this call before the event at position p
C27_CalledBefore(n, p) ==
  \/ calls[n] >= 1
  \/ \E q \in 1..(p - 1) : trace'[q].e = "cb" /\ trace'[q].n = n

C27_Step(g) ==
  LET tweens == nodes'[g].tweens
  IN /\ \A j \in 2..Len(tweens), p \in 1..Len(trace') :
          (trace'[p].n = tweens[j] /\ trace'[p].e \in {"start", "skip", "write", "cb"})
          => C27_CalledBefore(tweens[j - 1], p)
     /\ \A j \in 2..Len(tweens) :
          (InSeq(active'[1], tweens[j]) \/ InSeq(paused'[1], tweens[j]))
          => calls'[tweens[j - 1]] >= 1
     /\ \A p \in 1..Len(trace') :
          (trace'[p].e = "cb" /\ trace'[p].n = g)
          => C27_CalledBefore(tweens[Len(tweens)], p)

\* C27: in a Serial group the callbacks of the children are invoked in the
\* order of the child list; a child is not started, passed over, written or
\* called back, and is not in a list of the tweener, before the callback of
\* the child before it has been invoked; and the own callback of the group is
\* invoked after the callback of the last child.
C27_SerialCallbacksInOrder ==
  [][\A g \in GroupIds : C27_Case(g)' => C27_Step(g)]_vars

\* one update has ended the first child, passed over the second and started
\* the third: the three callbacks and the start are in the call's trace
C27_Witness ==
  \E g \in GroupIds :
    /\ C27_Case(g)
    /\ nodes[g].tweens = <<1, 2, 3>>
    /\ lastOp.op = "update"
    /\ err = "none"
    /\ CallsOf(trace, 1) # << >>
    /\ TraceCount(trace, "skip", 2) = 1
    /\ CallsOf(trace, 2) # << >>
    /\ TraceCount(trace, "start", 3) = 1
    /\ InSeq(active[1], 3)
    /\ calls[3] = 0

\* ----------------------------------------------------------------------- C28
\* g is a started non-looping Serial group of distinct delay-free leaves with
\* an end callback of its own
C28_Case(g) ==
  /\ IsSerial(g) /\ LeafGroup(g) /\ ~nodes[g].is_looping
  /\ Cardinality(Children(g)) = Len(nodes[g].tweens)
  /\ \A m \in Children(g) : nodes[m].delay = 0
  /\ nodes[g].cb = UserCb(g)
  /\ nodes[g].state # created

\* d1 + ... + dk
C28_Total(g) ==
  SumD(St, nodes[g].tweens, 1)

\* C28: a started non-looping Serial group of delay-free leaves invokes its
\* own callback in the first update call at which the delta times passed
\* since its start add up to d1 + ... + dk or more, and in no other.
C28_SerialEndsOnTime ==
  [][\A g \in GroupIds :
       (C28_Case(g) /\ lastOp'.op = "update") =>
         (calls'[g] > calls[g]
          <=> (clock < C28_Total(g) /\ clock' >= C28_Total(g)))]_vars

\* ----------------------------------------------------------------------- C29
C29_Count(seq, n) ==
  Cardinality({i \in 1..Len(seq) : seq[i] = n})

\* C29: no tween is in both the active and the paused list of a tweener, and
\* no tween occurs more than once in either list.
C29_ListsDisjointNoDuplicates ==
  \A T \in 1..NumTweeners, n \in NodeIds :
    C29_Count(active[T], n) + C29_Count(paused[T], n) <= 1

\* an update has just ended leaf 1, whose callback has put a leaf that was in
\* a list back at the end of the active list, next to a paused leaf
C29_Witness ==
  /\ lastOp.op = "update"
  /\ err = "none"
  /\ calls[1] >= 1
  /\ \E k \in {"do_start", "do_resume_tweens"} : nodes[1].cb.k = k
  /\ Len(active[1]) + Len(paused[1]) >= 2
  /\ active[1] # << >>

\* ----------------------------------------------------------------------- C30
\* C30: no tween whose state field is ended is in the active or the paused
\* list of a tweener.
C30_NoEndedTweenInLists ==
  \A T \in 1..NumTweeners, n \in NodeIds :
    (InSeq(active[T], n) \/ InSeq(paused[T], n)) => nodes[n].state # ended

\* a leaf that an update had ended has been started again: it is in the active
\* list, it is not ended, and its callback has been invoked
C30_Witness ==
  \E n \in ListIds :
    /\ calls[n] >= 1
    /\ lastOp = Op("start", n, 0)
    /\ InSeq(active[1], n)
    /\ nodes[n].state = active_

\* ----------------------------------------------------------------------- C31
\* an update(dt) of SpecDelay while the leaf is still in the active list;
\* clock is the time since the start
C31_Step(dt) ==
  UpdateStep(dt) /\ InSeq(active[1], 1) /\ nodes[1].delay > 0

\* before the delay is over nothing is written and nothing is called
C31_Waits ==
  /\ WritesBy(trace', 1) = << >>
  /\ attr' = attr
  /\ attr'[1][1] = hist.v0[1]
  /\ calls' = calls
  /\ InSeq(active'[1], 1)

\* the one write of the call is the curve at the instant at
C31_WritesAt(at) ==
  /\ WritesBy(trace', 1)
       = << Event("write", 1, nodes[1].b + (nodes[1].c * at) \div nodes[1].d, 0, "") >>
  /\ attr'[1][1] = nodes[1].b + (nodes[1].c * at) \div nodes[1].d

\* The statement as it is made: once the delta times add up to the delay D or
\* more, the curve is evaluated at (cumulative dt - D).
C31_DelayedLeafEvaluatedAtElapsed ==
  [][\A dt \in 0..MaxDt :
       C31_Step(dt) =>
         IF clock' < nodes[1].delay THEN C31_Waits
         ELSE C31_WritesAt(clock' - nodes[1].delay)]_vars

\* C31 (amended): for a leaf with delay D > 0 started with immediate=False,
\* an update call writes nothing and calls nothing back as long as the delta
\* times since the start add up to less than D (the attribute keeps the value
\* it had at creation); every later update call of the run writes the curve
\* at min(cumulative dt - D, d), the first of them being the first call at
\* which the cumulative dt is >= D.
C31_DelayedLeafWaitsThenRuns ==
  [][\A dt \in 0..MaxDt :
       C31_Step(dt) =>
         IF clock' < nodes[1].delay THEN C31_Waits
         ELSE C31_WritesAt(cur_time(clock' - nodes[1].delay, nodes[1].d))]_vars

\* the update that crosses the delay has written the first value, which is
\* neither the begin value nor the end value, after an update that waited
C31_Witness ==
  /\ lastOp.op = "update"
  /\ clock = 2
  /\ Exists(1) /\ nodes[1].delay = 1 /\ nodes[1].d = 2
  /\ nodes[1].b = Scale
  /\ nodes[1].t = 1
  /\ WritesBy(trace, 1) = << Event("write", 1, Scale + Change \div 2, 0, "") >>
  /\ InSeq(active[1], 1)

\* ----------------------------------------------------------------------- C32
\* C32: the state field of every leaf is active if and only if the leaf is in
\* the active list of its tweener, and paused if and only if it is in the
\* paused list.
C32_StateFieldMatchesList ==
  \A n \in LeafIds :
    Exists(n) =>
      /\ nodes[n].state = active_ <=> InSeq(active[nodes[n].tweener], n)
      /\ nodes[n].state = paused_ <=> InSeq(paused[nodes[n].tweener], n)

\* ----------------------------------------------------------------------- C33
\* C33: after stop() on a Serial group, in whatever state the group was, no
\* child's cb field is the group's handler call_back_to_serial and every
\* child carries the callback it was created with; and no later call ends in
\* an unbounded callback recursion.
C33_SerialStopRestoresCallbacks ==
  /\ \A g \in GroupIds :
       (IsSerial(g) /\ lastOp = Op("stop", g, 0) /\ err = "none") =>
         \A n \in Children(g) : nodes[n].cb = UserCb(n)
  /\ err # "RecursionError"

\* ----------------------------------------------------------------------- C34
\* the call that has just returned is an update of a started Parallel group
\* in which the last of its children has ended
C34_RunEnds(g) ==
  /\ lastOp.op = "update"
  /\ nodes[g].state = active_
  /\ \A n \in Children(g) : nodes[n].state = ended
  /\ \E n \in Children(g) : TraceCount(trace, "write", n) > 0

\* C34: after start() on a Parallel group, in whatever state the group was,
\* the group's record of the callbacks of its children does not hold the
\* group's handler call_back_to_parallel; and in the update that ends the
\* run the own callback of the group is invoked once.
C34_ParallelRestartKeepsCallbacks ==
  \A g \in GroupIds :
    IsParallel(g) =>
      /\ (lastOp.op = "start" /\ lastOp.n = g /\ err = "none") =>
           \A n \in Children(g) : nodes[g].tween_callbacks[n] # ParallelCb(g)
      /\ C34_RunEnds(g) => TraceCount(trace, "cb", g) <= 1

\* ----------------------------------------------------------------------- C35
\* the child n of the outer Serial completes in this update: its callback is
\* invoked, and not because the Serial passes it over
C35_Completes(n) ==
  /\ Exists(Outer) /\ InSeq(nodes[Outer].tweens, n)
  /\ lastOp'.op = "update"
  /\ TraceCount(trace', "cb", n) > 0
  /\ TraceCount(trace', "skip", n) = 0

\* C35: the over_time a Serial computes when a child completes, child.t -
\* child.d (the fields as the child has them when its callback returns), is
\* not negative, for a leaf and for a composite child, and no leaf gets an
\* elapsed time below -delay.
C35_OverTimeNotNegative ==
  [][/\ \A n \in NodeIds :
          C35_Completes(n) => nodes'[n].t - D([nodes |-> nodes'], n) >= 0
     /\ \A n \in LeafIds : nodes'[n].t >= -nodes'[n].delay]_vars

\* ----------------------------------------------------------------------- C36
\* the leaves below the node n
RECURSIVE LeavesOf(_)
LeavesOf(n) ==
  IF nodes[n].kind = "tween" THEN {n}
  ELSE UNION {LeavesOf(nodes[n].tweens[i]) : i \in 1..Len(nodes[n].tweens)}

\* the outer Serial runs its first child, the leaf 1, and update(dt) ends
\* that leaf with the overtime over
C36_Advances(dt, over) ==
  /\ Exists(Outer) /\ nodes[Outer].tweens = <<1, Inner>>
  /\ UpdateStep(dt)
  /\ nodes[Outer].state = active_
  /\ nodes[Outer].current_tween_index = 0
  /\ InSeq(active[1], 1)
  /\ over = nodes[1].t + dt - nodes[1].d
  /\ over >= 0

\* C36: when a Serial advances with overtime o > 0 to a composite child that
\* it does not pass over, the leaves of the composite that become active
\* start with the elapsed time -delay + o.
C36_OvertimeReachesLeaves ==
  [][\A dt \in 0..MaxDt, over \in 1..MaxClock :
       (C36_Advances(dt, over) /\ D(St, Inner) > over) =>
         /\ err' = "none"
         /\ \E n \in LeavesOf(Inner) : InSeq(active'[1], n)
         /\ \A n \in LeavesOf(Inner) :
              InSeq(active'[1], n) => nodes'[n].t = -nodes'[n].delay + over]_vars

\* ----------------------------------------------------------------------- C39
\* C39: when the next child of a Serial is a Parallel or Serial group whose
\* duration is <= the overtime, the advancement raises no error, invokes the
\* composite's own callback once and applies the terminal values of all the
\* leaves of the composite.
C39_CompositePassedOverLikeLeaf ==
  [][\A dt \in 0..MaxDt, over \in 1..MaxClock :
       (C36_Advances(dt, over) /\ D(St, Inner) <= over) =>
         /\ err' = "none"
         /\ TraceCount(trace', "cb", Inner) = 1
         /\ \A n \in LeavesOf(Inner) :
              attr'[nodes[n].o][nodes[n].a] = nodes[n].b + nodes[n].c]_vars

\* ----------------------------------------------------------------------- C37
\* every invocation of the end callback of the leaf n in this call saw the
\* terminal value of n in the attribute
C37_SawTerminalValue(n) ==
  \A i \in 1..Len(trace') :
    (trace'[i].e = "cb" /\ trace'[i].n = n /\ trace'[i].arg = n)
    => trace'[i].val = nodes[n].b + nodes[n].c

\* C37: whenever the end callback of an absolute-mode leaf is invoked, on
\* natural completion in update or because a Serial passes the leaf over, the
\* attribute of the owner holds the terminal value begin + change of the leaf
\* when the callback starts.
C37_CallbackSeesTerminalValue ==
  [][\A n \in LeafIds :
       (Exists(n) /\ ~nodes[n].delta_update) => C37_SawTerminalValue(n)]_vars

\* ----------------------------------------------------------------------- C38
\* C38: start_tween(tween) on a tweener that did not create the tween raises
\* TweenBelongsToOtherTweenerException and changes nothing: the state and the
\* elapsed time of the tween and the active and paused lists of the tweeners
\* are as they were before the call.
C38_ForeignStartChangesNothing ==
  [][\A n \in LeafIds, T \in Tweeners :
       (Exists(n) /\ nodes[n].tweener # T /\ lastOp' = Op("start_tween", n, T)) =>
         /\ err' = "TweenBelongsToOtherTweenerException"
         /\ nodes'[n].state = nodes[n].state
         /\ nodes'[n].t = nodes[n].t
         /\ active' = active
         /\ paused' = paused]_vars

====
